---------------------------- MODULE Spec2Model ----------------------------
(***************************************************************************)
(* Korean-Novel-Glossary-Maker: the glossary merge engine, the frequency   *)
(* pass, the ambiguity batch pass, the category correction pass and the    *)
(* pipeline that runs them (src/main.py, src/system, src/local_search).    *)
(*                                                                         *)
(* A Python str is a sequence of one-character tokens.  Hangul syllables   *)
(* are written romanized: nam, gung, ga, se, sin, ui, gong, cheon, ma, hwa, *)
(* gi.                                                                     *)
(* A Python dict is a function whose DOMAIN is the set of keys present.    *)
(* The lookup tables of the source are restricted to the entries that can  *)
(* be spelled with the syllables of Syllables: no other entry can be a     *)
(* prefix or suffix of a string over that alphabet.                        *)
(***************************************************************************)
EXTENDS Integers, Sequences, FiniteSets, TLC

VARIABLES
    pc,                \* position in the operation sequence being run
    master_nouns,      \* the in-memory master list (list of dicts)
    new_glossary,      \* the candidate list handed to a merge
    existing_hanguls,  \* the caller's set of master hangul keys
    dict_cache,        \* local_search/ambiguous/dictionary_cache.json: term -> entry
    combined_text,     \* the concatenated corpus text
    prev_master,       \* history: master list before the last operation
    first_merged,      \* history: master list after the first merge
    nmerge,            \* history: number of merge passes done
    npass,             \* history: number of frequency passes done
    which,             \* history: the merge function in use
    batch_ok,          \* the last merge did not take its except branch
    raised,            \* an exception reached the caller of the operation
    cfg,               \* the attributes of system/config_loader.py a run reads
    disk,              \* nouns.json: the persisted master list
    disk0,             \* history: nouns.json when the run started
    result,            \* what run_noun_extraction_pipeline gave its caller
    stages,            \* history: the stages applied to the master list, in order
    excel_data,        \* the rows handed to export_to_excel
    original_glossary, \* main.py line 37
    success,           \* main.py line 132
    detector_cache,    \* self.dict_cache of the live AmbiguityDetector
    krdict_api_key,    \* self.api_key of the live AmbiguityDetector
    service_calls,     \* history: the requests sent to the dictionary service
    returned,          \* history: the last detector operation and what it gave
    nops,              \* history: number of detector operations done
    chunk,             \* extraction.py line 73: number of file chunks finished
    attempt,           \* extraction.py line 116: attempts made for the chunk in work
    requests,          \* history: the generate_content calls and how each ended
    chunk_nouns        \* extraction.py line 80: api_nouns of the last finished chunk

mergeVars == <<new_glossary, existing_hanguls, first_merged, nmerge, which, batch_ok>>

pipeVars == <<cfg, disk, disk0, result, stages, excel_data, original_glossary, success>>

detVars == <<detector_cache, krdict_api_key, service_calls, returned, nops>>

aiVars == <<chunk, attempt, requests, chunk_nouns>>

vars == <<pc, master_nouns, dict_cache, combined_text, prev_master, npass, raised,
          mergeVars, pipeVars, detVars, aiVars>>

---------------------------------------------------------------------------
(* Bounds of the model *)
MaxMaster == 2
MaxCand == 2
MaxText == 4
MaxPrior == 5
MaxMerges == 2
MaxPasses == 2
MaxList == 1

---------------------------------------------------------------------------
(* Strings *)
Syllables == {"nam", "gung", "ga", "se", "sin", "ui", "gong", "cheon", "ma", "hwa", "gi"}
Whitespace == {" ", "\n"}

Range(s) == {s[i] : i \in 1..Len(s)}

SeqsUpTo(S, n) == UNION {[1..k -> S] : k \in 0..n}

StartsWith(s, p) == Len(p) <= Len(s) /\ SubSeq(s, 1, Len(p)) = p

EndsWith(s, p) == Len(p) <= Len(s) /\ SubSeq(s, Len(s) - Len(p) + 1, Len(s)) = p

RECURSIVE LStrip(_)
LStrip(s) == IF s # <<>> /\ Head(s) \in Whitespace THEN LStrip(Tail(s)) ELSE s

RECURSIVE RStrip(_)
RStrip(s) ==
    IF s # <<>> /\ s[Len(s)] \in Whitespace THEN RStrip(SubSeq(s, 1, Len(s) - 1)) ELSE s

Strip(s) == RStrip(LStrip(s))

(* dict.get(k, d), d[k] = v, dict restricted to keys *)
Get(r, k, d) == IF k \in DOMAIN r THEN r[k] ELSE d

Put(r, k, v) == [x \in (DOMAIN r) \cup {k} |-> IF x = k THEN v ELSE r[x]]

Hanguls(list) == {Get(list[i], "hangul", <<>>) : i \in 1..Len(list)}

DistinctHanguls(list) ==
    \A i, j \in 1..Len(list) :
        i # j => Get(list[i], "hangul", <<>>) # Get(list[j], "hangul", <<>>)

---------------------------------------------------------------------------
(* Frequency pass: src/system/frequency_calculation.py *)

(* re.sub(r'\s+', ' ', text) *)
RECURSIVE normalize_whitespace(_)
normalize_whitespace(t) ==
    IF t = <<>> THEN <<>>
    ELSE IF Head(t) \in Whitespace
         THEN <<" ">> \o normalize_whitespace(LStrip(Tail(t)))
         ELSE <<Head(t)>> \o normalize_whitespace(Tail(t))

(* len(re.findall(re.escape(pat), text)): leftmost matches, each scan    *)
(* resuming after the previous match; the empty pattern matches at every *)
(* position, the end included.                                           *)
RECURSIVE findall_from(_, _, _)
findall_from(pat, text, i) ==
    IF i + Len(pat) - 1 > Len(text) THEN 0
    ELSE IF SubSeq(text, i, i + Len(pat) - 1) = pat
         THEN 1 + findall_from(pat, text, i + Len(pat))
         ELSE findall_from(pat, text, i + 1)

findall_count(pat, text) ==
    IF pat = <<>> THEN Len(text) + 1 ELSE findall_from(pat, text, 1)

count_one_reset(noun, text) ==
    Put(Put(noun, "frequency", findall_count(noun["hangul"], text)),
        "ambiguous", Get(noun, "ambiguous", FALSE))

(* the body of the loop of calculate_frequencies for one noun *)
count_one(noun, text) ==
    LET count == findall_count(noun["hangul"], text)
        counted == IF "frequency" \in DOMAIN noun
                   THEN Put(noun, "frequency", noun["frequency"] + count)
                   ELSE Put(noun, "frequency", count)
    IN  IF "ambiguous" \in DOMAIN counted THEN counted
        ELSE Put(counted, "ambiguous", FALSE)

(* noun['hangul'] raises KeyError on a record without the key *)
calculate_frequencies_raises(noun_list) ==
    \E i \in 1..Len(noun_list) : "hangul" \notin DOMAIN noun_list[i]

calculate_frequencies(noun_list, text) ==
    [i \in 1..Len(noun_list) |-> count_one(noun_list[i], normalize_whitespace(text))]

filter_keep_all(noun_list) == noun_list

filter_zero_frequency(noun_list) ==
    SelectSeq(noun_list, LAMBDA noun : Get(noun, "frequency", 0) > 0)

---------------------------------------------------------------------------
(* Category correction pass: src/system/text_processing.py *)

(* all_surnames_raw, split by length; entries over Syllables only *)
single_char_surnames ==
    {<<"ga">>, <<"gong">>, <<"gung">>, <<"gi">>, <<"nam">>, <<"ma">>, <<"sin">>,
     <<"cheon">>, <<"hwa">>}

compound_surnames == {<<"nam", "gung">>}

all_surnames_for_check == compound_surnames \cup single_char_surnames

skills_suffixes == {<<"sin", "gong">>, <<"ma", "gong">>}

is_surname_org_compound_only(hangul) ==
    /\ EndsWith(hangul, <<"ga">>) \/ EndsWith(hangul, <<"se", "ga">>)
    /\ \E surname \in compound_surnames :
          /\ StartsWith(hangul, surname)
          /\ SubSeq(hangul, Len(surname) + 1, Len(hangul)) \in {<<"ga">>, <<"se", "ga">>}

(* lines 181-194 *)
is_surname_org(hangul) ==
    /\ EndsWith(hangul, <<"ga">>) \/ EndsWith(hangul, <<"se", "ga">>)
    /\ \E surname \in all_surnames_for_check :
          /\ StartsWith(hangul, surname)
          /\ SubSeq(hangul, Len(surname) + 1, Len(hangul)) \in {<<"ga">>, <<"se", "ga">>}

cache_short_circuit_off(hangul, cache) == FALSE

(* lines 211-214: a hangul that is a key of the dictionary cache *)
cache_short_circuit(hangul, cache) == hangul \in cache

(* one iteration of the loop of fix_name_misidentification *)
fix_entry(entry, cache) ==
    LET hangul == Get(entry, "hangul", <<>>)
        current_category == Get(entry, "category", "")
        compound_match ==
            /\ Len(hangul) \in {3, 4}
            /\ \E c \in compound_surnames : StartsWith(hangul, c)
        single_match ==
            /\ ~compound_match
            /\ current_category \in {"misc", ""}
            /\ Len(hangul) \in {2, 3}
            /\ Get(entry, "english", "") = ""
            /\ \E s \in single_char_surnames : StartsWith(hangul, s)
    IN  IF is_surname_org(hangul)
        THEN Put(entry, "category", "locations and organizations")
        ELSE IF \E suffix \in skills_suffixes : EndsWith(hangul, suffix)
        THEN Put(entry, "category", "skills and techniques")
        ELSE IF cache_short_circuit(hangul, cache) THEN entry
        ELSE IF compound_match \/ single_match
        THEN Put(entry, "category", "character names")
        ELSE entry

fix_uncached_only(glossary_entries, cache) ==
    LET uncached == SelectSeq(glossary_entries,
                              LAMBDA entry : Get(entry, "hangul", <<>>) \notin cache)
    IN  [i \in 1..Len(uncached) |-> fix_entry(uncached[i], cache)]

(* lines 174-242 *)
fix_name_misidentification(glossary_entries, cache) ==
    [i \in 1..Len(glossary_entries) |-> fix_entry(glossary_entries[i], cache)]

---------------------------------------------------------------------------
(* Glossary merge: src/local_search/ner_system/glossary_merger.py and     *)
(* merge_localglossary_with_masternoun of src/system/text_processing.py   *)

NerTypes == {"NAME", "SKILL", "TITLE", "ORGANIZATION", "ITEM", "MISC"}

CATEGORIES ==
    {"character names", "skills and techniques", "character titles",
     "locations and organizations", "item names", "misc"}

(* CATEGORY_MAPPING.get(category, 'misc') *)
CATEGORY_MAPPING(category) ==
    CASE category = "NAME" -> "character names"
      [] category = "SKILL" -> "skills and techniques"
      [] category = "TITLE" -> "character titles"
      [] category = "ORGANIZATION" -> "locations and organizations"
      [] category = "ITEM" -> "item names"
      [] category = "MISC" -> "misc"
      [] OTHER -> "misc"

mapped_noun(noun) ==
    Put(noun, "category", CATEGORY_MAPPING(Get(noun, "category", "MISC")))

is_new_always(new_noun, master) == TRUE

(* hangul not in master_lookup: the lookup is built from master_nouns once, *)
(* before the loop, and the loop never adds to it                           *)
is_new_for_master(new_noun, master) ==
    Get(new_noun, "hangul", <<>>) \notin Hanguls(master)

merge_glossary_with_master_nouns(new, master) ==
    IF master = <<>>
    THEN [i \in 1..Len(new) |-> mapped_noun(new[i])]
    ELSE IF new = <<>> THEN master
    ELSE LET fresh == SelectSeq(new, LAMBDA n : is_new_for_master(n, master))
         IN  master \o [i \in 1..Len(fresh) |-> mapped_noun(fresh[i])]

(* lines 296-303: the record built from a glossary entry *)
noun_entry(entry) ==
    [hangul |-> entry["hangul"],
     hanja |-> Get(entry, "hanja", ""),
     english |-> Get(entry, "english", ""),
     category |-> CATEGORY_MAPPING(entry["category"]),
     frequency |-> Get(entry, "frequency", 0),
     ambiguous |-> Get(entry, "ambiguous", FALSE)]

backfill_all(existing, candidate) ==
    [k \in (DOMAIN existing) \cup {"ambiguous"} |->
        IF k = "ambiguous" THEN Get(existing, k, candidate[k])
        ELSE IF k \in {"hanja", "english"} /\ existing[k] = "" THEN candidate[k]
        ELSE existing[k]]

(* lines 318-320: only the ambiguous flag, and only when it is absent *)
backfill(existing, candidate) ==
    IF "ambiguous" \notin DOMAIN existing
    THEN Put(existing, "ambiguous", candidate["ambiguous"])
    ELSE existing

(* lines 316-324: the first record of merged_entries with that hangul *)
backfill_first(merged, hangul, candidate) ==
    IF \E i \in 1..Len(merged) : merged[i]["hangul"] = hangul
    THEN LET first == CHOOSE i \in 1..Len(merged) :
                         /\ merged[i]["hangul"] = hangul
                         /\ \A j \in 1..(i - 1) : merged[j]["hangul"] # hangul
         IN  [merged EXCEPT ![first] = backfill(merged[first], candidate)]
    ELSE merged

(* the loop of lines 291-324 from entry i on; ok = FALSE when entry['hangul'] *)
(* or entry['category'] raises KeyError                                       *)
RECURSIVE local_merge_loop(_, _, _, _)
local_merge_loop(entries, i, merged, hanguls) ==
    IF i > Len(entries) THEN [entries |-> merged, hanguls |-> hanguls, ok |-> TRUE]
    ELSE IF ~({"hangul", "category"} \subseteq DOMAIN entries[i])
    THEN [entries |-> merged, hanguls |-> hanguls, ok |-> FALSE]
    ELSE LET e == noun_entry(entries[i])
         IN  IF e.hangul \notin hanguls
             THEN local_merge_loop(entries, i + 1, Append(merged, e),
                                   hanguls \cup {e.hangul})
             ELSE local_merge_loop(entries, i + 1,
                                   backfill_first(merged, e.hangul, e), hanguls)

(* merged_entries shares its dicts with master_nouns (list.copy() is       *)
(* shallow), so when the except branch returns master_nouns the backfills  *)
(* done before the exception are in it.                                    *)
merge_localglossary_with_masternoun(glossary, master, hanguls, cache) ==
    IF \E i \in 1..Len(master) : "hangul" \notin DOMAIN master[i]
    THEN [entries |-> master, hanguls |-> hanguls, ok |-> FALSE]
    ELSE LET r == local_merge_loop(fix_name_misidentification(glossary, cache),
                                   1, master, hanguls)
         IN  IF r.ok THEN r
             ELSE [entries |-> SubSeq(r.entries, 1, Len(master)),
                   hanguls |-> hanguls, ok |-> FALSE]

---------------------------------------------------------------------------
(* Merge passes over a persisted master list: SpecMerge *)

(* the defaults of system/config_loader.py lines 22-41, with an API key set; *)
(* SAVE_NEW_ONLY is read by main.py but config_loader.py never defines it    *)
DefaultConfig ==
    [API_KEY |-> TRUE, DICT_API_KEY |-> FALSE, RAWS_FOLDER |-> TRUE,
     SAVE_NEW_ONLY |-> "undefined", HANJA_IDENTIFICATION |-> TRUE,
     LOCAL_MODEL |-> FALSE, DO_CATEGORIZATION |-> TRUE, DO_TRANSLATION |-> TRUE,
     GUESS_HANJA |-> TRUE, SIMPLIFIED_CHINESE_CONVERSION |-> TRUE]

(* no AmbiguityDetector is under observation *)
DetIdle ==
    /\ detector_cache = <<>>
    /\ krdict_api_key = ""
    /\ service_calls = <<>>
    /\ returned = [op |-> "none"]
    /\ nops = 0

(* no call of extract_nouns_with_ai_by_chunks is under observation *)
AiIdle ==
    /\ chunk = 0
    /\ attempt = 0
    /\ requests = <<>>
    /\ chunk_nouns = [valid |-> FALSE, nouns |-> <<>>]

(* no run of run_noun_extraction_pipeline is in progress *)
PipeIdle ==
    /\ cfg = DefaultConfig
    /\ disk = <<>>
    /\ disk0 = <<>>
    /\ result = "none"
    /\ stages = <<>>
    /\ excel_data = <<>>
    /\ original_glossary = <<>>
    /\ success = FALSE

cheonma == <<"cheon", "ma">>
namgungga == <<"nam", "gung", "ga">>
sinui == <<"sin", "ui">>
magong == <<"ma", "gong">>
sega == <<"se", "ga">>

(* records as earlier runs persisted them: a reference noun of main.py    *)
(* lines 66-80 (no ambiguous key), a finished record, a fresh regex noun  *)
MasterPool ==
    {[hangul |-> cheonma, hanja |-> "", english |-> "",
      category |-> "character titles", frequency |-> 5],
     [hangul |-> namgungga, hanja |-> "H1", english |-> "E1",
      category |-> "character names", frequency |-> 2, ambiguous |-> FALSE],
     [hangul |-> sinui, hanja |-> "", english |-> "", category |-> "",
      frequency |-> 0]}

(* glossary.json entries (export_simplified_glossary lines 440-447), an   *)
(* entry without hangul, an extractor pair {hangul, hanja}, an entry with *)
(* a category outside the NER types                                       *)
CandPool ==
    {[hangul |-> cheonma, hanja |-> "H2", english |-> "E2", category |-> "NAME",
      frequency |-> 3, ambiguous |-> TRUE],
     [hangul |-> magong, hanja |-> "", english |-> "", category |-> "NAME",
      frequency |-> 1, ambiguous |-> FALSE],
     [hangul |-> magong, hanja |-> "", english |-> "", category |-> "SKILL",
      frequency |-> 2, ambiguous |-> FALSE],
     [hanja |-> "", english |-> "", category |-> "NAME", frequency |-> 1,
      ambiguous |-> FALSE],
     [hangul |-> sinui, hanja |-> "H3"],
     [hangul |-> sega, hanja |-> "", english |-> "", category |-> "weapons",
      frequency |-> 1, ambiguous |-> FALSE]}

MasterLists == {m \in SeqsUpTo(MasterPool, MaxMaster) : DistinctHanguls(m)}

Texts == {<<"cheon", "ma", " ", "ma", "gong", "\n", "cheon", "ma">>,
          <<"sin", "ui", " ", "\n", "se", "ga">>}

InitMerge ==
    /\ pc = "start"
    /\ master_nouns \in MasterLists
    /\ new_glossary \in SeqsUpTo(CandPool, MaxCand)
    /\ existing_hanguls = Hanguls(master_nouns)
    /\ dict_cache \in {<<>>, [t \in {sinui} |-> [found |-> FALSE, is_common |-> FALSE]]}
    /\ combined_text \in Texts
    /\ prev_master = master_nouns
    /\ first_merged = <<>>
    /\ nmerge = 0
    /\ which = "none"
    /\ batch_ok = TRUE
    /\ raised = FALSE
    /\ npass = 0
    /\ PipeIdle
    /\ DetIdle
    /\ AiIdle

(* pipeline.py line 69 *)
MergeNER ==
    /\ pc \in {"start", "merged"}
    /\ nmerge < MaxMerges
    /\ which \in {"none", "ner"}
    /\ LET merged == merge_glossary_with_master_nouns(new_glossary, master_nouns)
       IN  /\ master_nouns' = merged
           /\ first_merged' = IF nmerge = 0 THEN merged ELSE first_merged
    /\ prev_master' = master_nouns
    /\ nmerge' = nmerge + 1
    /\ which' = "ner"
    /\ pc' = "merged"
    /\ batch_ok' = TRUE
    /\ UNCHANGED <<new_glossary, existing_hanguls, dict_cache, combined_text,
                   raised, npass, pipeVars, detVars, aiVars>>

(* text_processing.py lines 244-335 *)
MergeLocal ==
    /\ pc \in {"start", "merged"}
    /\ nmerge < MaxMerges
    /\ which \in {"none", "local"}
    /\ LET r == merge_localglossary_with_masternoun(new_glossary, master_nouns,
                                                    existing_hanguls, DOMAIN dict_cache)
       IN  /\ master_nouns' = r.entries
           /\ existing_hanguls' = r.hanguls
           /\ batch_ok' = r.ok
           /\ first_merged' = IF nmerge = 0 THEN r.entries ELSE first_merged
    /\ prev_master' = master_nouns
    /\ nmerge' = nmerge + 1
    /\ which' = "local"
    /\ pc' = "merged"
    /\ UNCHANGED <<new_glossary, dict_cache, combined_text, raised, npass, pipeVars, detVars, aiVars>>

(* pipeline.py lines 82-86: calculate_frequencies then filter_zero_frequency *)
FrequencyPass ==
    /\ pc = "merged"
    /\ IF calculate_frequencies_raises(master_nouns)
       THEN /\ raised' = TRUE
            /\ pc' = "raised"
            /\ UNCHANGED master_nouns
       ELSE /\ master_nouns' =
                   filter_zero_frequency(calculate_frequencies(master_nouns, combined_text))
            /\ pc' = "counted"
            /\ UNCHANGED raised
    /\ prev_master' = master_nouns
    /\ npass' = npass + 1
    /\ UNCHANGED <<dict_cache, combined_text, mergeVars, pipeVars, detVars, aiVars>>

NextMerge == MergeNER \/ MergeLocal \/ FrequencyPass

SpecMerge == InitMerge /\ [][NextMerge]_vars

---------------------------------------------------------------------------
(* Properties of the merge passes *)

(* C1: after a merge pass of merge_glossary_with_master_nouns over a master *)
(* list with pairwise distinct hangul keys, the resulting master list holds *)
(* exactly one record per hangul key, whatever the candidate list.          *)
C1_OneRecordPerHangul ==
    (pc = "merged" /\ which = "ner" /\ DistinctHanguls(prev_master))
        => DistinctHanguls(master_nouns)

(* C2: a merge pass leaves every master record whose hangul a candidate     *)
(* carries as it was (category, english, hanja, frequency and every other   *)
(* key it had); the only key it may gain is ambiguous.                      *)
C2_ExistingRecordKept ==
    pc = "merged" =>
        \A i \in 1..Len(prev_master) :
            (\E c \in Range(new_glossary) :
                /\ "hangul" \in DOMAIN c
                /\ c["hangul"] = Get(prev_master[i], "hangul", <<>>))
            => /\ i <= Len(master_nouns)
               /\ DOMAIN prev_master[i] \subseteq DOMAIN master_nouns[i]
               /\ \A k \in DOMAIN prev_master[i] :
                      master_nouns[i][k] = prev_master[i][k]
               /\ (DOMAIN master_nouns[i]) \ (DOMAIN prev_master[i])
                      \subseteq {"ambiguous"}

(* a duplicate candidate with other english/hanja met a master record that  *)
(* had no ambiguous key, and only that key was filled in                    *)
C2_Witness ==
    /\ pc = "merged"
    /\ which = "local"
    /\ \E i \in 1..Len(prev_master) : \E c \in Range(new_glossary) :
          /\ Get(c, "hangul", <<>>) = Get(prev_master[i], "hangul", <<>>)
          /\ Get(c, "english", "") # Get(prev_master[i], "english", "")
          /\ "ambiguous" \notin DOMAIN prev_master[i]
          /\ "ambiguous" \in DOMAIN master_nouns[i]

(* C3: merging the same candidate list a second time changes nothing: the   *)
(* same records, in the same order, with the same fields.                   *)
C3_MergeIdempotent ==
    (pc = "merged" /\ nmerge >= 2) => master_nouns = first_merged

(* the first pass absorbed a new candidate and a second pass has run *)
C3_Witness ==
    /\ pc = "merged"
    /\ nmerge >= 2
    /\ which = "ner"
    /\ \E i \in 1..Len(first_merged) : Get(first_merged[i], "hangul", <<>>) = magong
    /\ \E i \in 1..Len(first_merged) : Get(first_merged[i], "hangul", <<>>) = cheonma

(* C4: a candidate without the hangul key is skipped (not appended), the    *)
(* other candidates of the batch are still merged, and neither the merge    *)
(* nor the following frequency pass aborts.                                 *)
C4_MalformedCandidateSkipped ==
    (/\ nmerge = 1
     /\ \E c \in Range(new_glossary) : "hangul" \notin DOMAIN c
     /\ \A c \in Range(new_glossary) : "category" \in DOMAIN c)
    => /\ batch_ok
       /\ pc # "raised"
       /\ pc = "merged" =>
             /\ \A i \in 1..Len(master_nouns) : "hangul" \in DOMAIN master_nouns[i]
             /\ \A c \in Range(new_glossary) :
                    "hangul" \in DOMAIN c => c["hangul"] \in Hanguls(master_nouns)

---------------------------------------------------------------------------
(* Frequency passes over a corpus: SpecFreq *)

mama == <<"ma", "ma">>
ma_ma == <<"ma", " ", "ma">>

(* records with and without a frequency from an earlier run *)
FreqPool ==
    {[hangul |-> h] : h \in {<<"ma">>, mama, ma_ma}}
    \cup {[hangul |-> h, frequency |-> f, ambiguous |-> TRUE] :
              h \in {<<"ma">>, mama, ma_ma}, f \in {0, MaxPrior}}

MergeIdle ==
    /\ new_glossary = <<>>
    /\ existing_hanguls = {}
    /\ first_merged = <<>>
    /\ nmerge = 0
    /\ which = "none"
    /\ batch_ok = TRUE

InitFreq ==
    /\ pc = "start"
    /\ master_nouns \in SeqsUpTo(FreqPool, MaxList)
    /\ combined_text \in SeqsUpTo({"ma", " ", "\n"}, MaxText)
    /\ prev_master = master_nouns
    /\ dict_cache = <<>>
    /\ npass = 0
    /\ raised = FALSE
    /\ MergeIdle
    /\ PipeIdle
    /\ DetIdle
    /\ AiIdle

(* main.py line 143 *)
CalculateFrequencies ==
    /\ pc \in {"start", "filtered"}
    /\ npass < MaxPasses
    /\ master_nouns' = calculate_frequencies(master_nouns, combined_text)
    /\ prev_master' = master_nouns
    /\ npass' = npass + 1
    /\ pc' = "calculated"
    /\ UNCHANGED <<dict_cache, combined_text, raised, mergeVars, pipeVars, detVars, aiVars>>

(* main.py line 146 *)
FilterZeroFrequency ==
    /\ pc = "calculated"
    /\ master_nouns' = filter_zero_frequency(master_nouns)
    /\ prev_master' = master_nouns
    /\ pc' = "filtered"
    /\ UNCHANGED <<dict_cache, combined_text, raised, npass, mergeVars, pipeVars, detVars, aiVars>>

NextFreq == CalculateFrequencies \/ FilterZeroFrequency

SpecFreq == InitFreq /\ [][NextFreq]_vars

(* the start positions of the literal occurrences of pat in text, and the  *)
(* largest number of them that do not overlap                              *)
Occurrences(pat, text) ==
    {i \in 1..(Len(text) - Len(pat) + 1) : SubSeq(text, i, i + Len(pat) - 1) = pat}

NonOverlapping(P, n) == \A p, q \in P : p # q => (p - q >= n \/ q - p >= n)

MaxNonOverlapping(pat, text) ==
    LET sizes == {Cardinality(P) : P \in {Q \in SUBSET Occurrences(pat, text) :
                                             NonOverlapping(Q, Len(pat))}}
    IN  CHOOSE n \in sizes : \A m \in sizes : m <= n

(* C9: calculate_frequencies sets each record's frequency to its earlier    *)
(* frequency plus the number of non-overlapping literal occurrences of its  *)
(* hangul in the whitespace-normalized corpus; a record without a frequency *)
(* gets the count; no frequency decreases.                                  *)
C9_FrequencyAccumulates ==
    pc = "calculated" =>
        /\ Len(master_nouns) = Len(prev_master)
        /\ \A i \in 1..Len(prev_master) :
              LET occ == MaxNonOverlapping(prev_master[i]["hangul"],
                                           normalize_whitespace(combined_text))
              IN  /\ master_nouns[i]["hangul"] = prev_master[i]["hangul"]
                  /\ master_nouns[i]["frequency"] =
                        IF "frequency" \in DOMAIN prev_master[i]
                        THEN prev_master[i]["frequency"] + occ
                        ELSE occ
                  /\ "frequency" \in DOMAIN prev_master[i]
                        => master_nouns[i]["frequency"] >= prev_master[i]["frequency"]

(* a record with an earlier frequency met three occurrences of its hangul *)
C9_Witness ==
    /\ pc = "calculated"
    /\ \E i \in 1..Len(prev_master) :
          /\ Get(prev_master[i], "frequency", 0) = MaxPrior
          /\ master_nouns[i]["frequency"] = MaxPrior + 3

---------------------------------------------------------------------------
(* Ranking: sort_nouns of src/system/frequency_calculation.py *)

(* the key of the first sorted() call, lines 54-56 *)
sort_key_ascending(noun) ==
    <<IF noun["ambiguous"] THEN 1 ELSE 0,
      Len(noun["hangul"]),
      Get(noun, "frequency", 0)>>

(* sort_key of lines 60-66 *)
sort_key(noun) ==
    <<IF noun["ambiguous"] THEN 1 ELSE 0,
      0 - Len(noun["hangul"]),
      0 - Get(noun, "frequency", 0)>>

(* the order of Python tuples *)
key_less(a, b) ==
    \/ a[1] < b[1]
    \/ a[1] = b[1] /\ a[2] < b[2]
    \/ a[1] = b[1] /\ a[2] = b[2] /\ a[3] < b[3]

(* sorted() is stable: x goes before the first element with a greater key *)
RECURSIVE insert_by_key(_, _)
insert_by_key(sorted_nouns, x) ==
    IF sorted_nouns = <<>> THEN <<x>>
    ELSE IF key_less(sort_key(x), sort_key(Head(sorted_nouns)))
         THEN <<x>> \o sorted_nouns
         ELSE <<Head(sorted_nouns)>> \o insert_by_key(Tail(sorted_nouns), x)

RECURSIVE sorted_by_key(_)
sorted_by_key(noun_list) ==
    IF noun_list = <<>> THEN <<>>
    ELSE insert_by_key(sorted_by_key(SubSeq(noun_list, 1, Len(noun_list) - 1)),
                       noun_list[Len(noun_list)])

sort_nouns_fill_only(noun_list) ==
    [i \in 1..Len(noun_list) |->
        IF "ambiguous" \in DOMAIN noun_list[i]
        THEN noun_list[i]
        ELSE Put(noun_list[i], "ambiguous", FALSE)]

(* lines 44-71 *)
sort_nouns(noun_list) ==
    sorted_by_key([i \in 1..Len(noun_list) |->
                      IF "ambiguous" \in DOMAIN noun_list[i]
                      THEN noun_list[i]
                      ELSE Put(noun_list[i], "ambiguous", FALSE)])

(* x['hangul'] of lines 55 and 66 raises KeyError *)
sort_nouns_raises(noun_list) ==
    \E i \in 1..Len(noun_list) : "hangul" \notin DOMAIN noun_list[i]

---------------------------------------------------------------------------
(* Sorting lists of records: SpecSort *)

MaxSort == 3

SortPool ==
    {[hangul |-> h, frequency |-> f, ambiguous |-> a] :
        h \in {<<"ma">>, cheonma, namgungga}, f \in {1, 2}, a \in BOOLEAN}
    \cup {[hangul |-> sega], [hangul |-> sinui, frequency |-> 2],
          [category |-> "misc", frequency |-> 1]}

InitSort ==
    /\ pc = "start"
    /\ master_nouns \in SeqsUpTo(SortPool, MaxSort)
    /\ prev_master = master_nouns
    /\ combined_text = <<>>
    /\ dict_cache = <<>>
    /\ npass = 0
    /\ raised = FALSE
    /\ MergeIdle
    /\ PipeIdle
    /\ DetIdle
    /\ AiIdle

(* a call of sort_nouns, as in main.py line 158 *)
SortNouns ==
    /\ pc = "start"
    /\ IF sort_nouns_raises(master_nouns)
       THEN /\ raised' = TRUE
            /\ pc' = "failed"
            /\ UNCHANGED master_nouns
       ELSE /\ master_nouns' = sort_nouns(master_nouns)
            /\ pc' = "sorted"
            /\ UNCHANGED raised
    /\ prev_master' = master_nouns
    /\ UNCHANGED <<dict_cache, combined_text, npass, mergeVars, pipeVars, detVars, aiVars>>

NextSort == SortNouns

SpecSort == InitSort /\ [][NextSort]_vars

(* the input list after lines 49-51 gave every record an ambiguous field *)
with_ambiguous(noun_list) ==
    [i \in 1..Len(noun_list) |->
        IF "ambiguous" \in DOMAIN noun_list[i] THEN noun_list[i]
        ELSE Put(noun_list[i], "ambiguous", FALSE)]

(* C11: sort_nouns returns a permutation of its input in which the key     *)
(* (ambiguous, -len(hangul), -frequency) never decreases from one record   *)
(* to the next: unambiguous records come first, then longer hangul first,  *)
(* then higher frequency first.                                            *)
C11_SortedPermutation ==
    pc = "sorted" =>
        /\ Len(master_nouns) = Len(prev_master)
        /\ \A r \in Range(master_nouns) \cup Range(with_ambiguous(prev_master)) :
              Cardinality({i \in 1..Len(master_nouns) : master_nouns[i] = r})
              = Cardinality({i \in 1..Len(prev_master) :
                                with_ambiguous(prev_master)[i] = r})
        /\ \A i \in 1..(Len(master_nouns) - 1) :
              LET a == master_nouns[i]
                  b == master_nouns[i + 1]
              IN  /\ a["ambiguous"] => b["ambiguous"]
                  /\ (a["ambiguous"] = b["ambiguous"])
                        => Len(a["hangul"]) >= Len(b["hangul"])
                  /\ (a["ambiguous"] = b["ambiguous"]
                        /\ Len(a["hangul"]) = Len(b["hangul"]))
                        => Get(a, "frequency", 0) >= Get(b, "frequency", 0)

(* the ranking example: two unambiguous records of equal length in rising *)
(* frequency and an ambiguous one before them come out reordered          *)
C11_Witness ==
    /\ pc = "sorted"
    /\ Len(master_nouns) = 3
    /\ \A i \in 1..3 : DOMAIN prev_master[i] = {"hangul", "frequency", "ambiguous"}
    /\ prev_master[1]["ambiguous"] /\ ~prev_master[2]["ambiguous"]
    /\ ~prev_master[3]["ambiguous"]
    /\ Len(prev_master[1]["hangul"]) = 1
    /\ Len(prev_master[2]["hangul"]) = 2 /\ Len(prev_master[3]["hangul"]) = 2
    /\ prev_master[2]["frequency"] < prev_master[3]["frequency"]
    /\ master_nouns = <<prev_master[3], prev_master[2], prev_master[1]>>

---------------------------------------------------------------------------
(* Regex step: src/system/text_processing.py lines 12-100.  A run of hanja *)
(* characters is one token of the text; hanja_len is its len()             *)

HanjaWords == {"H1", "H2", "H3", "H4"}

hanja_len(hanja) == IF hanja \in {"H1", "H4"} THEN 3 ELSE 2

RECURSIVE run_start(_, _)
run_start(text, e) ==
    IF e > 1 /\ text[e - 1] \in Syllables THEN run_start(text, e - 1) ELSE e

RECURSIVE skip_space_back(_, _)
skip_space_back(text, e) ==
    IF e >= 1 /\ text[e] \in Whitespace THEN skip_space_back(text, e - 1) ELSE e

(* the match of ([hangul]+)\s*\(([hanja]+)\) whose "(" is at position p *)
regex_match_at(text, p) ==
    LET e == skip_space_back(text, p - 1)
    IN  IF /\ p + 2 <= Len(text)
           /\ text[p] = "("
           /\ text[p + 1] \in HanjaWords
           /\ text[p + 2] = ")"
           /\ e >= 1
           /\ text[e] \in Syllables
        THEN <<[hangul |-> SubSeq(text, run_start(text, e), e), hanja |-> text[p + 1]]>>
        ELSE <<>>

RECURSIVE regex_findall(_, _)
regex_findall(text, p) ==
    IF p > Len(text) THEN <<>>
    ELSE regex_match_at(text, p) \o regex_findall(text, p + 1)

(* the first noun of each hangul, in order *)
RECURSIVE first_of_each(_, _)
first_of_each(nouns, seen_hanguls) ==
    IF nouns = <<>> THEN <<>>
    ELSE IF Head(nouns)["hangul"] \in seen_hanguls
         THEN first_of_each(Tail(nouns), seen_hanguls)
         ELSE <<Head(nouns)>>
              \o first_of_each(Tail(nouns), seen_hanguls \cup {Head(nouns)["hangul"]})

extract_hanja_nouns_with_regex(text) ==
    LET kept == SelectSeq(regex_findall(text, 1),
                          LAMBDA m : Len(m.hangul) # 1 /\ Len(m.hangul) = hanja_len(m.hanja))
    IN  first_of_each([i \in 1..Len(kept) |->
                          [hangul |-> kept[i].hangul, hanja |-> kept[i].hanja,
                           english |-> ""]], {})

remove_duplicates_preserving_data(existing_nouns, new_nouns) ==
    first_of_each(existing_nouns \o new_nouns, {})

(* lines 67-100 with HANJA_IDENTIFICATION set: the list it returns and saves *)
extract_nouns_with_regex_all_files(text, existing_nouns) ==
    LET regex_nouns == extract_hanja_nouns_with_regex(text)
        new_nouns == [i \in 1..Len(regex_nouns) |->
                         [hangul |-> regex_nouns[i].hangul, hanja |-> regex_nouns[i].hanja,
                          english |-> "", category |-> "", frequency |-> 0]]
    IN  remove_duplicates_preserving_data(existing_nouns, new_nouns)

---------------------------------------------------------------------------
(* Ambiguity batch pass: src/local_search/ner_system/ambiguity_detector.py *)

hwagi == <<"hwa", "gi">>

(* all_particles of lines 23-38, in order; entries over Syllables only *)
all_particles == <<<<"ga">>, <<"ui">>>>

(* punctuation_chars of lines 41-48; the entries that occur in the texts *)
punctuation_chars == {"(", ")", "#"}

(* line 353; entries over Syllables only *)
blacklist == {sinui, <<"ma", "ui">>, hwagi}

contains_punctuation(text) == \E i \in 1..Len(text) : text[i] \in punctuation_chars

ends_with_particle(text) ==
    \E i \in 1..Len(all_particles) : EndsWith(text, all_particles[i])

unstripped_version(hangul) == Strip(hangul)

(* lines 259-274: the first particle that ends the text and leaves two characters *)
get_stripped_version_for_comparison(hangul) ==
    LET clean_hangul == Strip(hangul)
        hits == {i \in 1..Len(all_particles) :
                    /\ EndsWith(clean_hangul, all_particles[i])
                    /\ Len(clean_hangul) - Len(all_particles[i]) >= 2}
        first == CHOOSE i \in hits : \A j \in hits : i <= j
    IN  IF Len(clean_hangul) > 3 /\ hits # {}
        THEN SubSeq(clean_hangul, 1, Len(clean_hangul) - Len(all_particles[first]))
        ELSE clean_hangul

(* str.strip() of an english or hanja value; " " is a value of blanks only *)
strip_field(value) == IF value = " " THEN "" ELSE value

(* str.replace('##', '') of line 338 *)
RECURSIVE remove_markers(_)
remove_markers(s) ==
    IF s = <<>> THEN <<>>
    ELSE IF Len(s) >= 2 /\ s[1] = "#" /\ s[2] = "#"
    THEN remove_markers(SubSeq(s, 3, Len(s)))
    ELSE <<Head(s)>> \o remove_markers(Tail(s))

(* lines 109-122: some noun of the list gives the term an english value *)
has_english_translation(korean_term, nouns) ==
    \E i \in 1..Len(nouns) :
        /\ Get(nouns[i], "hangul", <<>>) = korean_term
        /\ korean_term # <<>>
        /\ strip_field(Get(nouns[i], "english", "")) # ""

(* What the dictionary service does with one term.  package: the krdict    *)
(* client library of lines 148-174 is not installed, raises in search(),   *)
(* answers without results, or answers with results.  http: the request of *)
(* lines 177-226 raises, answers with another status than 200, or answers  *)
(* 200 with XML that has results, XML without results, a body that is not  *)
(* XML but JSON with results, or a body that is neither.  pos: the part of *)
(* speech of the first result (myeongsa: noun, busa: adverb).              *)
PackageOutcomes == {"missing", "raises", "empty", "found"}

HttpOutcomes == {"error", "status", "xml_found", "xml_empty", "json_found", "garbage"}

PartsOfSpeech == {"myeongsa", "noun", "busa"}

(* the service knows nothing of the term and no client library is there *)
NoAnswer == [package |-> "missing", http |-> "xml_empty", pos |-> "busa"]

FoundAnswer == [package |-> "found", http |-> "xml_found", pos |-> "myeongsa"]

(* lines 142 and 229; the meanings list is left out of the entries *)
not_found_result == [found |-> FALSE, is_common |-> FALSE, word_type |-> "unknown"]

cache_hit_never(clean_word, cache) == FALSE

(* line 130 *)
cache_hit(clean_word, cache) == clean_word \in DOMAIN cache

has_nonempty_api_key(api_key) == api_key # ""

(* line 141 *)
has_valid_api_key(api_key) == api_key # "" /\ api_key # "YOUR_KRDICT_API_KEY_HERE"

store_found_only(cache, clean_word, outcome) ==
    IF outcome.found THEN Put(cache, clean_word, outcome) ELSE cache

(* self.dict_cache[clean_word] = result, lines 136, 143, 167, 204, 219, 230 *)
store_outcome(cache, clean_word, outcome) == Put(cache, clean_word, outcome)

catch_import_error_only(exception) == exception = "ImportError"

(* the except clauses of lines 170-174 *)
package_handlers_catch(exception) == exception \in {"ImportError", "Exception"}

(* the except clause of lines 224-226 *)
http_handler_catches(exception) == exception = "Exception"

(* lines 148-174: whether the library sent a request, what the try block *)
(* raised, and the entry of lines 155-166 when there are results         *)
package_lookup(clean_word, answer) ==
    [called |-> answer.package # "missing",
     exception |-> CASE answer.package = "missing" -> "ImportError"
                     [] answer.package = "raises" -> "Exception"
                     [] OTHER -> "none",
     hit |-> answer.package = "found",
     result |-> [found |-> TRUE,
                 is_common |-> answer.pos \in {"myeongsa", "noun"} \/ Len(clean_word) <= 3,
                 word_type |-> answer.pos,
                 response_type |-> "krdict_package"]]

(* lines 177-226: the bare except clauses of lines 207 and 222 catch what *)
(* the parsers raise                                                       *)
http_lookup(clean_word, answer) ==
    [called |-> TRUE,
     exception |-> IF answer.http = "error" THEN "Exception" ELSE "none",
     hit |-> answer.http \in {"xml_found", "json_found"},
     result |-> [found |-> TRUE,
                 is_common |-> Len(clean_word) <= 3 \/ answer.pos = "myeongsa",
                 word_type |-> answer.pos,
                 response_type |-> IF answer.http = "xml_found" THEN "xml_api"
                                   ELSE "json_api"]]

(* lines 124-232.  krdict gives the service's answer for each term it is  *)
(* asked (NoAnswer for the others).  The value: the entry returned, the   *)
(* cache afterwards, the requests sent, the number of times the cache     *)
(* file was written, and whether an exception left the method             *)
lookup_korean_word(word, cache, api_key, krdict) ==
    LET lookup(clean_word, package, http) ==
            LET short == [found |-> FALSE, is_common |-> Len(clean_word) <= 1,
                          word_type |-> "unknown"]
                package_calls ==
                    IF package.called THEN <<<<clean_word, "package">>>> ELSE <<>>
                all_calls == package_calls \o <<<<clean_word, "http">>>>
                done(entry, calls) ==
                    [entry |-> entry, cache |-> store_outcome(cache, clean_word, entry),
                     calls |-> calls, writes |-> 1, raised |-> FALSE]
                escaped(calls) ==
                    [entry |-> not_found_result, cache |-> cache, calls |-> calls,
                     writes |-> 0, raised |-> TRUE]
            IN  IF cache_hit(clean_word, cache)
                THEN [entry |-> cache[clean_word], cache |-> cache, calls |-> <<>>,
                      writes |-> 0, raised |-> FALSE]
                ELSE IF clean_word = <<>> \/ StartsWith(clean_word, <<"#", "#">>)
                        \/ Len(clean_word) <= 1
                THEN done(short, <<>>)
                ELSE IF ~has_valid_api_key(api_key) THEN done(not_found_result, <<>>)
                ELSE IF package.exception # "none"
                        /\ ~package_handlers_catch(package.exception)
                THEN escaped(package_calls)
                ELSE IF package.exception = "none" /\ package.hit
                THEN done(package.result, package_calls)
                ELSE IF http.exception # "none" /\ ~http_handler_catches(http.exception)
                THEN escaped(all_calls)
                ELSE IF http.exception = "none" /\ http.hit
                THEN done(http.result, all_calls)
                ELSE done(not_found_result, all_calls)
        asked(clean_word, answer) ==
            lookup(clean_word, package_lookup(clean_word, answer),
                   http_lookup(clean_word, answer))
        cleaned(clean_word) == asked(clean_word, Get(krdict, clean_word, NoAnswer))
    IN  cleaned(Strip(word))

(* soynlp_cohesion_model.pkl, lines 276-290: scores in hundredths *)
cohesion_scores == [t \in {<<"cheon">>, <<"ma">>, <<"se">>} |-> 40]

(* lines 292-314 *)
is_collocationally_ambiguous(text) ==
    IF Len(text) < 3 THEN FALSE
    ELSE IF DOMAIN cohesion_scores = {} THEN FALSE
    ELSE IF Get(cohesion_scores, text, 0) >= 30 THEN FALSE
    ELSE \E split_point \in 1..(Len(text) - 1) :
            /\ Get(cohesion_scores, SubSeq(text, 1, split_point), 0) > 25
            /\ Get(cohesion_scores, SubSeq(text, split_point + 1, Len(text)), 0) > 25

blacklisted_without_gloss(clean_text, english, hanja) ==
    clean_text \in blacklist /\ english = "" /\ hanja = ""

(* lines 352-355: the check comes before english and hanja are looked at *)
blacklisted(clean_text, english, hanja) == clean_text \in blacklist

default_flag_cohesion(corpus_ambiguous) == corpus_ambiguous

(* lines 377-381: the cohesion result is computed and not used *)
default_flag(corpus_ambiguous) == TRUE

(* lines 320-381: the flag, and what the lookup of line 373 did if the *)
(* call got that far (looked)                                          *)
is_entry_ambiguous(noun, cache, nouns, api_key, krdict) ==
    LET decided(flag) ==
            [ambiguous |-> flag, cache |-> cache, calls |-> <<>>, writes |-> 0,
             raised |-> FALSE, looked |-> FALSE, entry |-> not_found_result]
        by_dictionary(dict_info, corpus_ambiguous) ==
            [ambiguous |-> IF dict_info.entry.found /\ dict_info.entry.is_common
                           THEN FALSE ELSE default_flag(corpus_ambiguous),
             cache |-> dict_info.cache, calls |-> dict_info.calls,
             writes |-> dict_info.writes, raised |-> dict_info.raised,
             looked |-> TRUE, entry |-> dict_info.entry]
        classify(hangul, english, hanja, clean_text) ==
            IF Len(hangul) = 1 THEN decided(TRUE)
            ELSE IF Len(hangul) >= 3 THEN decided(FALSE)
            ELSE IF blacklisted(clean_text, english, hanja) THEN decided(TRUE)
            ELSE IF ends_with_particle(hangul) THEN decided(TRUE)
            ELSE IF english # "" \/ hanja # "" THEN decided(FALSE)
            ELSE IF has_english_translation(clean_text, nouns) THEN decided(FALSE)
            ELSE by_dictionary(lookup_korean_word(clean_text, cache, api_key, krdict),
                               is_collocationally_ambiguous(clean_text))
        stripped(hangul) ==
            classify(hangul, strip_field(Get(noun, "english", "")),
                     strip_field(Get(noun, "hanja", "")), Strip(remove_markers(hangul)))
    IN  stripped(Strip(Get(noun, "hangul", <<>>)))

(* lines 420-438 *)
RECURSIVE dedupe_stripped(_, _)
dedupe_stripped(nouns, seen_stripped) ==
    IF nouns = <<>> THEN <<>>
    ELSE LET hangul == Strip(Get(Head(nouns), "hangul", <<>>))
             stripped_hangul == get_stripped_version_for_comparison(hangul)
         IN  IF Len(hangul) > 3
             THEN IF stripped_hangul \in seen_stripped
                  THEN dedupe_stripped(Tail(nouns), seen_stripped)
                  ELSE <<Head(nouns)>>
                       \o dedupe_stripped(Tail(nouns), seen_stripped \cup {stripped_hangul})
             ELSE <<Head(nouns)>> \o dedupe_stripped(Tail(nouns), seen_stripped)

flag_entry_keep_prior(noun, cache, all_nouns, api_key, krdict) ==
    LET kept(r) ==
            [ambiguous |-> IF Len(Strip(Get(noun, "hangul", <<>>))) = 2
                           THEN r.ambiguous ELSE Get(noun, "ambiguous", FALSE),
             cache |-> r.cache, calls |-> r.calls, writes |-> r.writes,
             raised |-> FALSE, looked |-> FALSE, entry |-> not_found_result]
    IN  kept(is_entry_ambiguous(noun, cache, all_nouns, api_key, krdict))

(* lines 447-461: the flag of one surviving entry *)
flag_entry(noun, cache, all_nouns, api_key, krdict) ==
    IF Len(Strip(Get(noun, "hangul", <<>>))) = 2
    THEN is_entry_ambiguous(noun, cache, all_nouns, api_key, krdict)
    ELSE [ambiguous |-> FALSE, cache |-> cache, calls |-> <<>>, writes |-> 0,
          raised |-> FALSE, looked |-> FALSE, entry |-> not_found_result]

input_written_in_place(noun, flag) ==
    Put(Put(Put(noun, "ambiguous", flag), "english", Get(noun, "english", "")),
        "hanja", Get(noun, "hanja", ""))

(* lines 451-469: the writes go to noun.copy(), the record of the input *)
(* list stays as it was                                                 *)
input_after_flag(noun, flag) == noun

(* lines 446-471, from entry i on; inputs are the records of the input list *)
(* that the loop went through, as they are after it                         *)
RECURSIVE flag_entries(_, _, _, _, _, _)
flag_entries(nouns, i, cache, all_nouns, api_key, krdict) ==
    LET processed(noun, flag) ==
            LET flagged == Put(noun, "ambiguous", flag)
                with_english == IF "english" \in DOMAIN noun THEN flagged
                                ELSE Put(flagged, "english", "")
            IN  IF "hanja" \in DOMAIN noun THEN with_english
                ELSE Put(with_english, "hanja", "")
        joined(processed_noun, input_noun, r, rest) ==
            [nouns |-> <<processed_noun>> \o rest.nouns, cache |-> rest.cache,
             calls |-> r.calls \o rest.calls, writes |-> r.writes + rest.writes,
             raised |-> rest.raised, inputs |-> <<input_noun>> \o rest.inputs]
        flagged_from(noun, r) ==
            IF r.raised
            THEN [nouns |-> <<>>, cache |-> r.cache, calls |-> r.calls,
                  writes |-> r.writes, raised |-> TRUE, inputs |-> <<noun>>]
            ELSE joined(processed(noun, r.ambiguous), input_after_flag(noun, r.ambiguous),
                        r, flag_entries(nouns, i + 1, r.cache, all_nouns, api_key, krdict))
    IN  IF i > Len(nouns)
        THEN [nouns |-> <<>>, cache |-> cache, calls |-> <<>>, writes |-> 0,
              raised |-> FALSE, inputs |-> <<>>]
        ELSE flagged_from(nouns[i],
                          flag_entry(nouns[i], cache, all_nouns, api_key, krdict))

without_punctuation(nouns_list) ==
    SelectSeq(nouns_list,
              LAMBDA noun : LET hangul == Strip(Get(noun, "hangul", <<>>))
                            IN  hangul # <<>> /\ ~contains_punctuation(hangul))

(* lines 400-418: the entries left by the first two removal steps *)
without_punctuation_and_single(nouns_list) ==
    LET filtered_nouns ==
            SelectSeq(nouns_list,
                      LAMBDA noun : LET hangul == Strip(Get(noun, "hangul", <<>>))
                                    IN  hangul # <<>> /\ ~contains_punctuation(hangul))
    IN  SelectSeq(filtered_nouns,
                  LAMBDA noun : Len(Strip(Get(noun, "hangul", <<>>))) # 1)

(* lines 400-438: the entries that survive the three removal steps *)
ambiguity_survivors(nouns_list) ==
    dedupe_stripped(without_punctuation_and_single(nouns_list), {})

(* lines 383-485: the returned list, the dictionary cache it leaves, the  *)
(* requests sent and the number of times the cache file was written; the  *)
(* nouns handed to the constructor are the translation source             *)
run_ambiguity_detection_on_list(nouns_list, cache, api_key, krdict) ==
    LET saved(r) == IF r.raised THEN r ELSE [r EXCEPT !.writes = r.writes + 1]
    IN  IF nouns_list = <<>>
        THEN [nouns |-> nouns_list, cache |-> cache, calls |-> <<>>, writes |-> 0,
              raised |-> FALSE, inputs |-> <<>>]
        ELSE saved(flag_entries(ambiguity_survivors(nouns_list), 1, cache, nouns_list,
                                api_key, krdict))

---------------------------------------------------------------------------
(* AI stages and export: src/ai_codes and src/system/excel_export.py *)

(* what the categorization model answers for a batch; "misc" is also what *)
(* the code assigns when every retry fails or the answer has no category  *)
AiCategoryAnswers == {"misc", "character names", "weapons"}

(* categorization.py lines 43-142; every batch gets the same answer *)
categorize_nouns_with_ai(noun_list, answer) ==
    [i \in 1..Len(noun_list) |->
        IF Get(noun_list[i], "category", "") = ""
        THEN Put(noun_list[i], "category", answer)
        ELSE noun_list[i]]

(* translation.py lines 59-152; "none": every retry failed *)
translate_nouns_with_ai(noun_list, answer) ==
    [i \in 1..Len(noun_list) |->
        IF Get(noun_list[i], "english", "") = "" /\ answer # "none"
        THEN Put(noun_list[i], "english", answer)
        ELSE noun_list[i]]

(* hanja_guessing.py lines 65-162; "": no hanja in the answer *)
guess_missing_hanja_with_ai(noun_list, answer) ==
    [i \in 1..Len(noun_list) |->
        IF /\ Get(noun_list[i], "hanja", "") = ""
           /\ Get(noun_list[i], "english", "") # ""
           /\ answer # ""
        THEN Put(noun_list[i], "hanja", answer)
        ELSE noun_list[i]]

(* hanja_conversion.py lines 9-19: OpenCC t2s; H1 and H4 have simplified forms *)
convert_hanja_to_simplified(hanja_text) ==
    IF hanja_text = "" THEN ""
    ELSE IF hanja_text = "H1" THEN "S1"
    ELSE IF hanja_text = "H4" THEN "S4"
    ELSE hanja_text

(* excel_export.py lines 13-36 *)
filter_out_original_terms(current_nouns, original_nouns) ==
    IF original_nouns = <<>> THEN current_nouns
    ELSE SelectSeq(current_nouns, LAMBDA noun : noun["hangul"] \notin Hanguls(original_nouns))

(* main.py lines 216-227 *)
excel_row(noun, with_chinese) ==
    LET row == [hangul |-> noun["hangul"],
                hanja |-> Get(noun, "hanja", ""),
                english |-> Get(noun, "english", ""),
                category |-> Get(noun, "category", ""),
                frequency |-> Get(noun, "frequency", 0),
                ambiguous |-> Get(noun, "ambiguous", FALSE)]
    IN  IF with_chinese THEN Put(row, "chinese", Get(noun, "chinese", "")) ELSE row

---------------------------------------------------------------------------
(* A run of run_noun_extraction_pipeline: SpecPipeline *)

(* nouns.json as earlier runs left it: finished records, a record whose  *)
(* category came from a reference file, and a reference noun saved at    *)
(* main.py line 89 by a run that stopped before its frequency pass       *)
DiskPool ==
    {[hangul |-> cheonma, hanja |-> "", english |-> "",
      category |-> "character titles", frequency |-> 5, ambiguous |-> FALSE],
     [hangul |-> namgungga, hanja |-> "H1", english |-> "E1",
      category |-> "character names", frequency |-> 2, ambiguous |-> FALSE],
     [hangul |-> sega, hanja |-> "", english |-> "", category |-> "weapons",
      frequency |-> 1, ambiguous |-> TRUE],
     [hangul |-> sinui, hanja |-> "", english |-> "", category |-> "",
      frequency |-> 0]}

is_ranked(noun_list) ==
    \A i \in 1..(Len(noun_list) - 1) :
        ~key_less(sort_key(Put(noun_list[i + 1], "ambiguous",
                               Get(noun_list[i + 1], "ambiguous", FALSE))),
                  sort_key(Put(noun_list[i], "ambiguous",
                               Get(noun_list[i], "ambiguous", FALSE))))

DiskLists ==
    {m \in SeqsUpTo(DiskPool, MaxMaster) : DistinctHanguls(m) /\ is_ranked(m)}

(* load_reference_nouns (file_operations.py lines 40-92): no file, or one row *)
ReferenceLists ==
    {<<>>,
     <<[hangul |-> sega, hanja |-> "", english |-> "", category |-> "weapons",
        frequency |-> 0]>>}

(* _call_ai_api_with_retries (extraction.py lines 129-139): pairs {hangul, hanja} *)
AiNounLists ==
    {<<[hangul |-> magong, hanja |-> ""]>>,
     <<[hangul |-> sinui, hanja |-> "H3"], [hangul |-> cheonma, hanja |-> ""]>>}

ner_entry(hangul, category, frequency) ==
    [hangul |-> hangul, hanja |-> "", english |-> "", category |-> category,
     frequency |-> frequency, ambiguous |-> FALSE]

(* glossary.json of export_simplified_glossary (novel_processor.py lines *)
(* 413-460): one entry per (hangul, type), longest hangul first          *)
NerGlossaries ==
    {<<>>,
     <<ner_entry(magong, "SKILL", 2), ner_entry(magong, "NAME", 1)>>,
     <<ner_entry(namgungga, "MISC", 1), ner_entry(cheonma, "MISC", 3)>>,
     <<ner_entry(cheonma, "NAME", 2)>>}

(* the words the dictionary service knows *)
KrdictWords == {cheonma}

(* the service has an entry for some of the words and answers every request *)
PipelineServices == {[w \in S |-> FoundAnswer] : S \in SUBSET KrdictWords}

(* main.py line 152 and korean_ner_inference.py line 87 *)
config_for_ambiguity(c) ==
    IF c.DICT_API_KEY THEN "KEY" ELSE "YOUR_KRDICT_API_KEY_HERE"

PipelineTexts ==
    Texts \cup {<<"ma", "gong", "(", "H4", ")", "\n",
                  "nam", "gung", "se", " ", "(", "H4", ")">>}

(* the attribute values a caller can have set before the run; a run that *)
(* stops before it reads an attribute is listed with the default         *)
Configs ==
    {c \in [API_KEY : BOOLEAN, DICT_API_KEY : BOOLEAN, RAWS_FOLDER : BOOLEAN,
            SAVE_NEW_ONLY : {"undefined", "on", "off"},
            HANJA_IDENTIFICATION : BOOLEAN, LOCAL_MODEL : BOOLEAN,
            DO_CATEGORIZATION : BOOLEAN, DO_TRANSLATION : BOOLEAN,
            GUESS_HANJA : BOOLEAN, SIMPLIFIED_CHINESE_CONVERSION : BOOLEAN] :
        /\ (~c.API_KEY) => c = [DefaultConfig EXCEPT !.API_KEY = FALSE]
        /\ (c.API_KEY /\ c.SAVE_NEW_ONLY = "undefined") => c = DefaultConfig
        /\ (c.API_KEY /\ ~c.RAWS_FOLDER) =>
              c = [DefaultConfig EXCEPT !.RAWS_FOLDER = FALSE,
                                        !.SAVE_NEW_ONLY = c.SAVE_NEW_ONLY]}

InitPipeline ==
    /\ pc = "start"
    /\ cfg \in Configs
    /\ disk \in DiskLists
    /\ disk0 = disk
    /\ combined_text \in PipelineTexts
    /\ dict_cache = <<>>
    /\ master_nouns = <<>>
    /\ prev_master = <<>>
    /\ result = "none"
    /\ stages = <<>>
    /\ excel_data = <<>>
    /\ original_glossary = <<>>
    /\ success = FALSE
    /\ raised = FALSE
    /\ npass = 0
    /\ MergeIdle
    /\ DetIdle
    /\ AiIdle

(* what a run never changes *)
runFrame == <<cfg, disk0, combined_text, first_merged, nmerge, npass, which, batch_ok,
              detVars, aiVars>>

(* the run goes on at label to with the list nouns; saved: save_nouns_json *)
(* wrote it (file_operations.py lines 13-23); log: the stages just applied *)
Advance(to, nouns, saved, log) ==
    /\ pc' = to
    /\ master_nouns' = nouns
    /\ prev_master' = master_nouns
    /\ disk' = IF saved THEN nouns ELSE disk
    /\ stages' = stages \o log
    /\ UNCHANGED <<result, raised>>

(* the run ends: it returns True or False, or an exception leaves it *)
Return(value) ==
    /\ pc' = "done"
    /\ result' = value
    /\ raised' = (value = "raised")

(* main.py lines 28-58.  An exception in the try block reaches the except  *)
(* clause of line 54, whose tuple names json, which main.py never imports: *)
(* evaluating it raises NameError, which leaves the function               *)
Load ==
    /\ pc = "start"
    /\ IF ~cfg.API_KEY
       THEN /\ Return("false")
            /\ UNCHANGED <<master_nouns, prev_master, disk, stages, existing_hanguls,
                           original_glossary>>
       ELSE IF \/ \E i \in 1..Len(disk) : "hangul" \notin DOMAIN disk[i]
               \/ cfg.SAVE_NEW_ONLY = "undefined"
       THEN /\ Return("raised")
            /\ UNCHANGED <<master_nouns, prev_master, disk, stages, existing_hanguls,
                           original_glossary>>
       ELSE /\ Advance("loaded", disk, FALSE, <<>>)
            /\ existing_hanguls' = Hanguls(disk)
            /\ original_glossary' = IF cfg.SAVE_NEW_ONLY = "on" THEN disk ELSE <<>>
    /\ UNCHANGED <<dict_cache, new_glossary, excel_data, success, runFrame>>

(* main.py lines 60-96 *)
LoadReference ==
    /\ pc = "loaded"
    /\ \E reference_nouns \in ReferenceLists :
          LET merged == master_nouns \o first_of_each(reference_nouns, existing_hanguls)
          IN  /\ existing_hanguls' = Hanguls(merged)
              /\ IF cfg.RAWS_FOLDER
                 THEN Advance("regex", merged, TRUE, <<"reference", "save">>)
                 ELSE /\ Return("false")
                      /\ master_nouns' = merged
                      /\ prev_master' = master_nouns
                      /\ disk' = merged
                      /\ stages' = stages \o <<"reference", "save">>
    /\ UNCHANGED <<dict_cache, new_glossary, excel_data, original_glossary, success,
                   runFrame>>

(* main.py lines 101-112 *)
RegexStep ==
    /\ pc = "regex"
    /\ IF cfg.HANJA_IDENTIFICATION
       THEN LET found == extract_nouns_with_regex_all_files(combined_text, disk)
            IN  /\ Advance("extract", found, TRUE, <<"regex", "save">>)
                /\ existing_hanguls' = Hanguls(found)
       ELSE /\ Advance("extract", <<>>, FALSE, <<>>)
            /\ existing_hanguls' = {}
    /\ UNCHANGED <<dict_cache, new_glossary, excel_data, original_glossary, success,
                   runFrame>>

(* main.py line 120, korean_ner_inference.py lines 44-127, pipeline.py lines *)
(* 40-66: the NER model writes glossary.json, or the step fails              *)
LocalExtract ==
    /\ pc = "extract"
    /\ cfg.LOCAL_MODEL
    /\ \/ /\ pc' = "local_failed"
          /\ UNCHANGED new_glossary
       \/ /\ pc' = "local_merge"
          /\ new_glossary' \in NerGlossaries
    /\ UNCHANGED <<master_nouns, prev_master, disk, stages, result, raised, dict_cache,
                   existing_hanguls, excel_data, original_glossary, success, runFrame>>

(* pipeline.py line 69 *)
LocalMerge ==
    /\ pc = "local_merge"
    /\ Advance("local_freq", merge_glossary_with_master_nouns(new_glossary, master_nouns),
               FALSE, <<"merge">>)
    /\ UNCHANGED <<dict_cache, new_glossary, existing_hanguls, excel_data,
                   original_glossary, success, runFrame>>

(* pipeline.py lines 72-90; an exception goes to the except of lines 107-111 *)
LocalFrequency ==
    /\ pc = "local_freq"
    /\ IF master_nouns = <<>>
       THEN Advance("local_ambiguity", master_nouns, FALSE, <<>>)
       ELSE IF calculate_frequencies_raises(master_nouns)
       THEN Advance("local_failed", master_nouns, FALSE, <<>>)
       ELSE Advance("local_ambiguity",
                    filter_zero_frequency(calculate_frequencies(master_nouns, combined_text)),
                    FALSE, <<"frequency">>)
    /\ UNCHANGED <<dict_cache, new_glossary, existing_hanguls, excel_data,
                   original_glossary, success, runFrame>>

(* pipeline.py lines 92-97 *)
LocalAmbiguity ==
    /\ pc = "local_ambiguity"
    /\ \E krdict \in PipelineServices :
          LET detected(r) == /\ Advance("local_sort", r.nouns, FALSE, <<"ambiguity">>)
                             /\ dict_cache' = r.cache
          IN  detected(run_ambiguity_detection_on_list(master_nouns, dict_cache,
                                                       config_for_ambiguity(cfg), krdict))
    /\ UNCHANGED <<new_glossary, existing_hanguls, excel_data, original_glossary, success,
                   runFrame>>

(* pipeline.py lines 99-102 *)
LocalSort ==
    /\ pc = "local_sort"
    /\ Advance("local_correct", sort_nouns(master_nouns), FALSE, <<"sort">>)
    /\ UNCHANGED <<dict_cache, new_glossary, existing_hanguls, excel_data,
                   original_glossary, success, runFrame>>

(* main.py lines 121-128: the correction pass runs on the list the local *)
(* pipeline returned, then the list is saved or the run fails            *)
LocalCorrection ==
    /\ pc \in {"local_correct", "local_failed"}
    /\ LET fixed_master_nouns == fix_name_misidentification(master_nouns, DOMAIN dict_cache)
       IN  IF pc = "local_correct"
           THEN Advance("categorize", fixed_master_nouns, TRUE, <<"correction", "save">>)
           ELSE /\ Return("false")
                /\ stages' = stages \o <<"correction">>
                /\ UNCHANGED <<master_nouns, prev_master, disk>>
    /\ UNCHANGED <<dict_cache, new_glossary, existing_hanguls, excel_data,
                   original_glossary, success, runFrame>>

(* main.py line 132 and extraction.py lines 51-112, one chunk of files: *)
(* the model answers with pairs, or every retry fails                   *)
GeminiExtract ==
    /\ pc = "extract"
    /\ ~cfg.LOCAL_MODEL
    /\ \E api_nouns \in AiNounLists \cup {<<>>} :
          LET new_nouns == first_of_each(api_nouns, existing_hanguls)
              grown == master_nouns
                       \o [i \in 1..Len(new_nouns) |->
                              [hangul |-> new_nouns[i].hangul, hanja |-> new_nouns[i].hanja,
                               english |-> "", category |-> "", frequency |-> 0]]
          IN  /\ Advance("gemini_freq", grown, TRUE, <<"merge", "save">>)
              /\ existing_hanguls' = existing_hanguls \cup Hanguls(new_nouns)
              /\ success' = (grown # <<>>)
    /\ UNCHANGED <<dict_cache, new_glossary, excel_data, original_glossary, runFrame>>

(* main.py lines 134-146 *)
GeminiFrequency ==
    /\ pc = "gemini_freq"
    /\ IF calculate_frequencies_raises(master_nouns)
       THEN /\ Return("raised")
            /\ UNCHANGED <<master_nouns, prev_master, disk, stages>>
       ELSE Advance("gemini_ambiguity",
                    filter_zero_frequency(calculate_frequencies(master_nouns, combined_text)),
                    FALSE, <<"frequency">>)
    /\ UNCHANGED <<dict_cache, new_glossary, existing_hanguls, excel_data,
                   original_glossary, success, runFrame>>

(* main.py lines 148-155 and detect_ambiguity_for_nouns *)
GeminiAmbiguity ==
    /\ pc = "gemini_ambiguity"
    /\ \E krdict \in PipelineServices :
          LET detected(r) == /\ Advance("gemini_sort", r.nouns, FALSE, <<"ambiguity">>)
                             /\ dict_cache' = r.cache
          IN  detected(run_ambiguity_detection_on_list(master_nouns, dict_cache,
                                                       config_for_ambiguity(cfg), krdict))
    /\ UNCHANGED <<new_glossary, existing_hanguls, excel_data, original_glossary, success,
                   runFrame>>

(* main.py lines 157-165 *)
GeminiSort ==
    /\ pc = "gemini_sort"
    /\ LET sorted_nouns == sort_nouns(master_nouns)
       IN  IF success
           THEN Advance("categorize", sorted_nouns, TRUE, <<"sort", "save">>)
           ELSE /\ Return("false")
                /\ master_nouns' = sorted_nouns
                /\ prev_master' = master_nouns
                /\ disk' = sorted_nouns
                /\ stages' = stages \o <<"sort", "save">>
    /\ UNCHANGED <<dict_cache, new_glossary, existing_hanguls, excel_data,
                   original_glossary, success, runFrame>>

(* main.py lines 167-174: categorization.py defines no                   *)
(* fill_blank_category_as_misc, so the disabled branch raises            *)
(* AttributeError                                                        *)
Categorize ==
    /\ pc = "categorize"
    /\ IF cfg.DO_CATEGORIZATION
       THEN \E answer \in AiCategoryAnswers :
               Advance("translate", categorize_nouns_with_ai(master_nouns, answer), TRUE,
                       <<"categorize", "save">>)
       ELSE /\ Return("raised")
            /\ UNCHANGED <<master_nouns, prev_master, disk, stages>>
    /\ UNCHANGED <<dict_cache, new_glossary, existing_hanguls, excel_data,
                   original_glossary, success, runFrame>>

(* main.py lines 176-182 *)
Translate ==
    /\ pc = "translate"
    /\ IF cfg.DO_TRANSLATION
       THEN \E answer \in {"none", "E9"} :
               Advance("guess", translate_nouns_with_ai(master_nouns, answer), TRUE,
                       <<"translate", "save">>)
       ELSE Advance("guess", master_nouns, TRUE, <<"save">>)
    /\ UNCHANGED <<dict_cache, new_glossary, existing_hanguls, excel_data,
                   original_glossary, success, runFrame>>

(* main.py lines 184-190 *)
GuessHanja ==
    /\ pc = "guess"
    /\ IF cfg.GUESS_HANJA
       THEN \E answer \in {"", "H2"} :
               Advance("convert", guess_missing_hanja_with_ai(master_nouns, answer), TRUE,
                       <<"guess", "save">>)
       ELSE Advance("convert", master_nouns, FALSE, <<>>)
    /\ UNCHANGED <<dict_cache, new_glossary, existing_hanguls, excel_data,
                   original_glossary, success, runFrame>>

(* main.py lines 192-202 *)
ConvertSimplified ==
    /\ pc = "convert"
    /\ IF cfg.SIMPLIFIED_CHINESE_CONVERSION
       THEN IF \E i \in 1..Len(master_nouns) : "hanja" \notin DOMAIN master_nouns[i]
            THEN /\ Return("raised")
                 /\ UNCHANGED <<master_nouns, prev_master, disk, stages>>
            ELSE Advance("export",
                         [i \in 1..Len(master_nouns) |->
                             Put(master_nouns[i], "chinese",
                                 convert_hanja_to_simplified(master_nouns[i]["hanja"]))],
                         TRUE, <<"convert", "save">>)
       ELSE Advance("export", master_nouns, FALSE, <<>>)
    /\ UNCHANGED <<dict_cache, new_glossary, existing_hanguls, excel_data,
                   original_glossary, success, runFrame>>

(* main.py lines 204-239; export_to_excel returns True, or False after an *)
(* exception of its own                                                   *)
Export ==
    /\ pc = "export"
    /\ LET kept == IF cfg.SAVE_NEW_ONLY = "on" /\ original_glossary # <<>>
                   THEN filter_out_original_terms(master_nouns, original_glossary)
                   ELSE master_nouns
       IN  /\ master_nouns' = kept
           /\ prev_master' = master_nouns
           /\ excel_data' = [i \in 1..Len(kept) |->
                                excel_row(kept[i], cfg.SIMPLIFIED_CHINESE_CONVERSION)]
    /\ \E exported \in BOOLEAN : Return(IF exported THEN "true" ELSE "false")
    /\ stages' = stages \o <<"export">>
    /\ UNCHANGED <<disk, dict_cache, new_glossary, existing_hanguls, original_glossary,
                   success, runFrame>>

NextPipeline ==
    \/ Load \/ LoadReference \/ RegexStep
    \/ LocalExtract \/ LocalMerge \/ LocalFrequency \/ LocalAmbiguity \/ LocalSort
    \/ LocalCorrection
    \/ GeminiExtract \/ GeminiFrequency \/ GeminiAmbiguity \/ GeminiSort
    \/ Categorize \/ Translate \/ GuessHanja \/ ConvertSimplified \/ Export

SpecPipeline == InitPipeline /\ [][NextPipeline]_vars

---------------------------------------------------------------------------
(* Properties of a pipeline run *)

(* C5: a record of the persisted master list at the start of a complete   *)
(* run is missing from the persisted list at its end only if its          *)
(* frequency after the frequency pass (what it had plus its occurrences   *)
(* in the corpus) is 0.                                                   *)
C5_RemovedOnlyByZeroFrequency ==
    (pc = "done" /\ result = "true") =>
        \A i \in 1..Len(disk0) :
            disk0[i]["hangul"] \notin Hanguls(disk) =>
                Get(disk0[i], "frequency", 0)
                + findall_count(disk0[i]["hangul"], normalize_whitespace(combined_text)) = 0

(* C6: run_noun_extraction_pipeline never lets an exception reach its *)
(* caller: it ends by returning True or False.                        *)
C6_NoExceptionEscapes == result # "raised"

(* C7: every row handed to the Excel exporter has a category of the *)
(* fixed category set.                                              *)
C7_CategoryInFixedSet ==
    "export" \in Range(stages) =>
        \A i \in 1..Len(excel_data) : excel_data[i]["category"] \in CATEGORIES

stage_rank(stage) ==
    CASE stage = "correction" -> 1
      [] stage = "merge" -> 2
      [] stage = "frequency" -> 3
      [] stage = "ambiguity" -> 4
      [] OTHER -> 0

(* C8: in every run the category correction pass comes before the merge, *)
(* the merge before the frequency pass and the frequency pass before the *)
(* ambiguity pass; the correction pass is never applied after the merge. *)
C8_StageOrder ==
    \A i, j \in 1..Len(stages) :
        (i < j /\ stage_rank(stages[i]) > 0 /\ stage_rank(stages[j]) > 0)
            => stage_rank(stages[i]) <= stage_rank(stages[j])

saved_after_frequency ==
    \E i, j \in 1..Len(stages) : i < j /\ stages[i] = "frequency" /\ stages[j] = "save"

(* C10: once the frequency pass of a run is done the master list holds no *)
(* record with frequency 0, and neither does any list the run saves       *)
(* afterwards.                                                            *)
C10_NoZeroFrequencyKept ==
    /\ "frequency" \in Range(stages) =>
          \A i \in 1..Len(master_nouns) : Get(master_nouns[i], "frequency", 0) > 0
    /\ saved_after_frequency =>
          \A i \in 1..Len(disk) : Get(disk[i], "frequency", 0) > 0

(* a record that was persisted with frequency 0 went through the pass, *)
(* was filtered out, and the filtered list was saved                   *)
C10_Witness ==
    /\ saved_after_frequency
    /\ cfg.HANJA_IDENTIFICATION
    /\ disk # <<>>
    /\ \E i \in 1..Len(disk0) :
          /\ Get(disk0[i], "frequency", 0) = 0
          /\ disk0[i]["hangul"] \notin Hanguls(disk)

---------------------------------------------------------------------------
(* The ambiguity detector over repeated operations and runs that share   *)
(* dictionary_cache.json: SpecDetector                                   *)

MaxOps == 2
MaxBatch == 2

(* lines 67-87: the cache a new detector starts with *)
load_dict_cache(cache_data) ==
    [word \in DOMAIN cache_data |->
        LET data == cache_data[word]
            with_found == IF "found" \in DOMAIN data THEN data
                          ELSE Put(data, "found", FALSE)
            with_common == IF "is_common" \in DOMAIN with_found THEN with_found
                           ELSE Put(with_found, "is_common", FALSE)
        IN  IF "word_type" \in DOMAIN with_common THEN with_common
            ELSE Put(with_common, "word_type", "unknown")]

ApiKeys == {"", "YOUR_KRDICT_API_KEY_HERE", "KEY"}

(* one answer for every way through lines 148-226 *)
Answers ==
    {NoAnswer, FoundAnswer,
     [package |-> "found", http |-> "error", pos |-> "busa"],
     [package |-> "raises", http |-> "xml_found", pos |-> "myeongsa"],
     [package |-> "raises", http |-> "error", pos |-> "myeongsa"],
     [package |-> "empty", http |-> "status", pos |-> "myeongsa"],
     [package |-> "missing", http |-> "json_found", pos |-> "busa"],
     [package |-> "empty", http |-> "garbage", pos |-> "myeongsa"],
     [package |-> "missing", http |-> "xml_found", pos |-> "noun"]}

namgungsega == <<"nam", "gung", "se", "ga">>

(* the words handed to _lookup_korean_word *)
LookupWords ==
    {cheonma, <<"cheon", "ma", " ">>, namgungsega, <<"ma">>, <<"#", "#", "ma">>}

(* records of one, two and more characters, with and without blanks around *)
(* the hangul, with and without english, hanja and an earlier flag         *)
AmbPool ==
    <<[hangul |-> <<"ma">>, ambiguous |-> FALSE],
      [hangul |-> <<"ma", " ">>, english |-> "E1"],
      [hangul |-> cheonma],
      [hangul |-> <<" ", "cheon", "ma">>, ambiguous |-> FALSE],
      [hangul |-> cheonma, english |-> "E1", ambiguous |-> TRUE],
      [hangul |-> magong, english |-> " "],
      [hangul |-> hwagi, english |-> "E2", hanja |-> "H2", ambiguous |-> FALSE],
      [hangul |-> sega, hanja |-> "H3"],
      [hangul |-> namgungga, ambiguous |-> TRUE],
      [hangul |-> namgungsega, ambiguous |-> TRUE],
      [hangul |-> <<"nam", "gung", "se", "ui">>, english |-> "E3"],
      [hangul |-> <<" ", "nam", "gung", "se", "ga", " ">>, hanja |-> "H4"],
      [hangul |-> <<"#", "#">>]>>

(* lists of up to MaxBatch records, in the order of the pool *)
AmbLists ==
    {[i \in 1..Len(picks) |-> AmbPool[picks[i]]] :
        picks \in {p \in SeqsUpTo(1..Len(AmbPool), MaxBatch) :
                      \A i \in 1..(Len(p) - 1) : p[i] < p[i + 1]}}

(* dictionary_cache.json as earlier runs left it *)
CacheFiles ==
    {<<>>,
     [t \in {cheonma} |-> not_found_result],
     [t \in {cheonma, hwagi} |->
         [found |-> TRUE, is_common |-> TRUE, word_type |-> "myeongsa",
          response_type |-> "xml_api"]]}

(* the lists a detector of SpecDetector is built with: they give it its  *)
(* translation cache and are what its batch pass runs on                 *)
DetectorLists ==
    {<<>>,
     <<[hangul |-> cheonma], [hangul |-> <<" ", "cheon", "ma">>, ambiguous |-> FALSE]>>,
     <<[hangul |-> hwagi, english |-> "E2"], [hangul |-> magong, english |-> "E4"]>>}

(* the two-character terms of a list, which are the ones a batch looks up *)
two_char_terms(noun_list) ==
    {Strip(Get(noun_list[i], "hangul", <<>>)) : i \in 1..Len(noun_list)}
        \cap {cheonma, magong}

(* the service's answer matters only when the operation asks the service: *)
(* dry_calls are the requests the operation sends to a service that knows *)
(* nothing                                                                *)
AnswersAsked(dry_calls) == IF dry_calls = <<>> THEN {NoAnswer} ELSE Answers

(* the answers given to the requests that were sent *)
answers_used(krdict, calls) ==
    [t \in {calls[i][1] : i \in 1..Len(calls)} |-> Get(krdict, t, NoAnswer)]

(* a detector has been built on a list, with a key and a cache file *)
Constructed(lists) ==
    /\ pc = "ready"
    /\ master_nouns \in lists
    /\ prev_master = master_nouns
    /\ dict_cache \in CacheFiles
    /\ krdict_api_key \in ApiKeys
    /\ detector_cache = load_dict_cache(dict_cache)
    /\ service_calls = <<>>
    /\ returned = [op |-> "construct"]
    /\ nops = 0
    /\ combined_text = <<>>
    /\ npass = 0
    /\ raised = FALSE
    /\ MergeIdle
    /\ PipeIdle
    /\ AiIdle

InitDetector == Constructed(DetectorLists)

(* AmbiguityDetector(config, master_nouns): lines 15-65, as in              *)
(* detect_ambiguity_for_nouns line 504 and pipeline.py line 94; a new run   *)
(* builds a new detector                                                    *)
Construct ==
    /\ pc # "ready"
    /\ ~raised
    /\ nops < MaxOps
    /\ \E key \in ApiKeys : krdict_api_key' = key
    /\ detector_cache' = load_dict_cache(dict_cache)
    /\ pc' = "ready"
    /\ returned' = [op |-> "construct"]
    /\ UNCHANGED <<master_nouns, prev_master, dict_cache, combined_text, npass, raised,
                   service_calls, nops, mergeVars, pipeVars, aiVars>>

(* what an operation of the detector leaves behind *)
Finish(op, arg, krdict, r, value) ==
    /\ detector_cache' = r.cache
    /\ dict_cache' = IF r.writes > 0 THEN r.cache ELSE dict_cache
    /\ service_calls' = service_calls \o r.calls
    /\ raised' = r.raised
    /\ nops' = nops + 1
    /\ returned' = [op |-> op, arg |-> arg, answers |-> answers_used(krdict, r.calls),
                    value |-> value, calls |-> r.calls, writes |-> r.writes,
                    cache0 |-> detector_cache,
                    inputs |-> IF "inputs" \in DOMAIN r THEN r.inputs ELSE <<>>]
    /\ UNCHANGED <<combined_text, npass, krdict_api_key, mergeVars, pipeVars, aiVars>>

(* the requests an operation sends to a service that knows nothing tell *)
(* whether the service's answer matters to it                          *)
lookup_asks(word) ==
    lookup_korean_word(word, detector_cache, krdict_api_key, <<>>).calls

classify_asks(noun) ==
    is_entry_ambiguous(noun, detector_cache, master_nouns, krdict_api_key, <<>>).calls

batch_asks ==
    run_ambiguity_detection_on_list(master_nouns, detector_cache, krdict_api_key,
                                    <<>>).calls

(* a call of _lookup_korean_word *)
LookupWord ==
    /\ pc \in {"ready", "looked", "classified"}
    /\ nops < MaxOps
    /\ \E word \in LookupWords :
       \E answer \in AnswersAsked(lookup_asks(word)) :
          LET krdict == [t \in {Strip(word)} |-> answer]
              looked(r) == Finish("lookup", word, krdict, r, r.entry)
          IN  looked(lookup_korean_word(word, detector_cache, krdict_api_key, krdict))
    /\ pc' = "looked"
    /\ UNCHANGED <<master_nouns, prev_master>>

(* a call of is_entry_ambiguous *)
ClassifyEntry ==
    /\ pc \in {"ready", "looked", "classified"}
    /\ nops < MaxOps
    /\ \E k \in 1..Len(AmbPool) :
       \E answer \in AnswersAsked(classify_asks(AmbPool[k])) :
          LET krdict == [t \in {cheonma, magong, <<>>} |-> answer]
              classified(noun, r) ==
                  Finish("classify", noun, krdict, r,
                         [ambiguous |-> r.ambiguous, looked |-> r.looked,
                          entry |-> r.entry])
          IN  classified(AmbPool[k],
                         is_entry_ambiguous(AmbPool[k], detector_cache, master_nouns,
                                            krdict_api_key, krdict))
    /\ pc' = "classified"
    /\ UNCHANGED <<master_nouns, prev_master>>

(* run_ambiguity_detection_on_list on the list the detector was built with *)
RunBatch ==
    /\ pc = "ready"
    /\ nops < MaxOps
    /\ \E krdict \in [two_char_terms(master_nouns) -> AnswersAsked(batch_asks)] :
          LET batched(r) ==
                  /\ Finish("batch", master_nouns, krdict, r, r.nouns)
                  /\ master_nouns' = IF r.raised THEN master_nouns ELSE r.nouns
          IN  batched(run_ambiguity_detection_on_list(master_nouns, detector_cache,
                                                      krdict_api_key, krdict))
    /\ prev_master' = master_nouns
    /\ pc' = "batched"

NextDetector == Construct \/ LookupWord \/ ClassifyEntry \/ RunBatch

SpecDetector == InitDetector /\ [][NextDetector]_vars

---------------------------------------------------------------------------
(* Batch passes over many lists, run after run on one cache file: SpecBatch *)

InitBatch == Constructed(AmbLists)

NextBatch == Construct \/ RunBatch

SpecBatch == InitBatch /\ [][NextBatch]_vars

---------------------------------------------------------------------------
(* Properties of the ambiguity detector *)

trimmed(noun) == Strip(Get(noun, "hangul", <<>>))

(* C12: no record whose trimmed hangul is one character long is in the *)
(* list run_ambiguity_detection_on_list returns: such records are      *)
(* removed, not flagged.                                               *)
C12_SingleCharacterRemoved ==
    pc = "batched" =>
        \A i \in 1..Len(master_nouns) : Len(trimmed(master_nouns[i])) # 1

(* a list with a one-character record and another record went through the *)
(* pass, and the other record came back                                    *)
C12_Witness ==
    /\ pc = "batched"
    /\ \E i \in 1..Len(prev_master) : Len(trimmed(prev_master[i])) = 1
    /\ master_nouns # <<>>

(* C13: every record of three or more characters (as the pass measures    *)
(* them: the trimmed hangul) that survives the batch pass has ambiguous = *)
(* FALSE, whatever flag, fields and cache it came with, and no request    *)
(* is sent and no cache key is added for it.                              *)
C13_LongTermsUnambiguous ==
    pc = "batched" =>
        \A i \in 1..Len(master_nouns) :
            Len(trimmed(master_nouns[i])) >= 3 =>
                /\ master_nouns[i]["ambiguous"] = FALSE
                /\ trimmed(master_nouns[i]) \in DOMAIN detector_cache
                      => trimmed(master_nouns[i]) \in DOMAIN returned.cache0
                /\ \A c \in Range(returned.calls) : c[1] # trimmed(master_nouns[i])

(* a record of three characters that came flagged went through a pass *)
(* that also asked the service about a two-character record           *)
C13_Witness ==
    /\ pc = "batched"
    /\ returned.calls # <<>>
    /\ \E i \in 1..Len(prev_master), j \in 1..Len(master_nouns) :
          /\ Len(trimmed(prev_master[i])) >= 3
          /\ Get(prev_master[i], "ambiguous", FALSE)
          /\ master_nouns[j]["hangul"] = prev_master[i]["hangul"]

(* C17 (as claimed): a batch pass over a list that is not empty writes the *)
(* dictionary cache file exactly once.                                     *)
C17_CacheWrittenOnce ==
    (pc = "batched" /\ prev_master # <<>>) => returned.writes = 1

(* the normalized form of line 338 *)
normalized(noun) == Strip(remove_markers(trimmed(noun)))

(* C14: a two-character term whose normalized form is blacklisted is  *)
(* classified ambiguous, also when the record has english or hanja, a *)
(* translation-cache hit or a found-and-common dictionary entry.      *)
C14_BlacklistWins ==
    /\ (/\ pc = "classified"
        /\ Len(trimmed(returned.arg)) = 2
        /\ normalized(returned.arg) \in {sinui, hwagi})
          => returned.value.ambiguous
    /\ pc = "batched" =>
          \A i \in 1..Len(master_nouns) :
              (Len(trimmed(master_nouns[i])) = 2
               /\ normalized(master_nouns[i]) \in {sinui, hwagi})
                  => master_nouns[i]["ambiguous"]

(* a blacklisted term with english and hanja, a translation-cache hit and *)
(* a found-and-common cache entry was classified                          *)
C14_Witness ==
    /\ pc = "classified"
    /\ returned.arg["hangul"] = hwagi
    /\ Get(returned.arg, "english", "") = "E2"
    /\ Get(returned.arg, "hanja", "") = "H2"
    /\ has_english_translation(hwagi, master_nouns)
    /\ hwagi \in DOMAIN detector_cache
    /\ detector_cache[hwagi].found /\ detector_cache[hwagi].is_common

(* C15: a two-character term that is not blacklisted, does not end with a *)
(* particle, has no english, no hanja and no translation-cache hit, and   *)
(* for which the lookup does not report found-and-common, is classified   *)
(* ambiguous.                                                             *)
C15_DefaultAmbiguous ==
    pc = "classified" =>
        LET noun == returned.arg
        IN  (/\ Len(trimmed(noun)) = 2
             /\ normalized(noun) \notin {sinui, <<"ma", "ui">>, hwagi}
             /\ ~EndsWith(trimmed(noun), <<"ga">>) /\ ~EndsWith(trimmed(noun), <<"ui">>)
             /\ Get(noun, "english", "") \in {"", " "}
             /\ Get(noun, "hanja", "") \in {"", " "}
             /\ ~has_english_translation(normalized(noun), master_nouns)
             /\ returned.value.looked
             /\ ~(returned.value.entry.found /\ returned.value.entry.is_common))
                => returned.value.ambiguous

(* the service was asked about such a term and did not find it *)
C15_Witness ==
    /\ pc = "classified"
    /\ returned.arg = [hangul |-> cheonma]
    /\ returned.calls # <<>>
    /\ ~returned.value.entry.found
    /\ returned.value.ambiguous

count_calls(term, channels) ==
    Cardinality({i \in 1..Len(service_calls) :
                    service_calls[i][1] = term /\ service_calls[i][2] \in channels})

no_key == krdict_api_key \in {"", "YOUR_KRDICT_API_KEY_HERE"}

(* C19: without a dictionary key (empty or the placeholder) a lookup of a *)
(* term that is not cached and is two or more characters long sends no    *)
(* request, returns found = FALSE and is_common = FALSE and stores that;  *)
(* a two-character term without english, hanja or translation-cache hit   *)
(* is then classified ambiguous.                                          *)
C19_NoKeyNoRequest ==
    /\ no_key => (returned.op = "construct" \/ returned.calls = <<>>)
    /\ (pc = "looked" /\ no_key /\ Len(Strip(returned.arg)) >= 2
        /\ Strip(returned.arg) \notin DOMAIN returned.cache0) =>
          /\ returned.calls = <<>>
          /\ ~returned.value.found /\ ~returned.value.is_common
          /\ detector_cache[Strip(returned.arg)] = returned.value
          /\ dict_cache[Strip(returned.arg)] = returned.value
    /\ (pc = "classified" /\ no_key /\ Len(trimmed(returned.arg)) = 2
        /\ Get(returned.arg, "english", "") \in {"", " "}
        /\ Get(returned.arg, "hanja", "") \in {"", " "}
        /\ ~has_english_translation(normalized(returned.arg), master_nouns)
        /\ normalized(returned.arg) \notin DOMAIN returned.cache0) =>
          /\ returned.calls = <<>>
          /\ returned.value.ambiguous

(* with the placeholder key a term of four characters was looked up and a *)
(* two-character term classified                                          *)
C19_Witness ==
    /\ krdict_api_key = "YOUR_KRDICT_API_KEY_HERE"
    /\ nops = 2
    /\ pc = "classified"
    /\ returned.arg = [hangul |-> cheonma]
    /\ returned.value.looked /\ returned.value.ambiguous
    /\ namgungsega \in DOMAIN detector_cache
    /\ namgungsega \notin DOMAIN CHOOSE f \in CacheFiles : cheonma \in DOMAIN f
    /\ cheonma \notin DOMAIN returned.cache0

(* the request the lookup sent to the channel failed *)
failed(channel, outcomes) ==
    /\ <<Strip(returned.arg), channel>> \in Range(returned.calls)
    /\ returned.answers[Strip(returned.arg)][channel] \in outcomes

(* C20 (as claimed): any failure of the external call (the client library *)
(* raises, transport error, another status than 200, a body that is       *)
(* neither XML nor JSON) makes the lookup return found = FALSE, and no    *)
(* exception leaves the lookup.                                           *)
C20_AnyFailureNotFound ==
    /\ ~raised
    /\ (pc = "looked"
        /\ (failed("package", {"raises"}) \/ failed("http", {"error", "status", "garbage"})))
          => ~returned.value.found

(* C20 (amended): when the client library raises, the lookup goes on to   *)
(* the direct API; when the direct API request fails (transport error,    *)
(* another status than 200, a body that is neither XML nor JSON) the      *)
(* lookup returns found = FALSE; no exception leaves the lookup, and a    *)
(* batch pass returns every record that survived its removal steps.       *)
C20_FailedLookupNotFound ==
    /\ ~raised
    /\ (pc = "looked" /\ failed("package", {"raises"}))
          => <<Strip(returned.arg), "http">> \in Range(returned.calls)
    /\ (pc = "looked" /\ failed("http", {"error", "status", "garbage"}))
          => ~returned.value.found
    /\ pc = "batched" =>
          Len(master_nouns) = Len(ambiguity_survivors(prev_master))

(* the client library raised and then the request failed too *)
C20_Witness ==
    /\ pc = "looked"
    /\ failed("package", {"raises"})
    /\ failed("http", {"error"})
    /\ ~returned.value.found

---------------------------------------------------------------------------
(* The category correction pass applied to a glossary and again to its   *)
(* own output: SpecCorrect                                               *)

MaxFixList == 2
MaxFixes == 2

namgungma == <<"nam", "gung", "ma">>
maga == <<"ma", "ga">>

(* glossary entries of the local NER (upper-case types) and master records *)
(* (lower-case categories), with and without english, one without hangul   *)
CorrectPool ==
    {[hangul |-> namgungga, category |-> "character names"],
     [hangul |-> namgungsega, category |-> "NAME", english |-> "E1"],
     [hangul |-> maga, category |-> "misc"],
     [hangul |-> sega, category |-> "misc"],
     [hangul |-> magong, category |-> "misc"],
     [hangul |-> <<"nam", "gung", "sin", "gong">>, category |-> "character names"],
     [hangul |-> cheonma, category |-> "misc"],
     [hangul |-> cheonma, category |-> "", english |-> "E1"],
     [hangul |-> namgungma, category |-> "item names", frequency |-> 2],
     [hangul |-> sinui, category |-> "character titles"],
     [hangul |-> <<"nam", "gung", "ga", "ma">>, category |-> "MISC"],
     [category |-> "misc"]}

(* dictionary_cache.json: absent or unreadable (lines 121-128 leave the *)
(* dict empty), and two files of earlier runs                           *)
CorrectCaches ==
    {<<>>,
     [t \in {cheonma, namgungga, magong, namgungma} |-> not_found_result],
     [t \in {maga, namgungsega, sinui, <<>>} |-> not_found_result]}

InitCorrect ==
    /\ pc = "start"
    /\ new_glossary \in SeqsUpTo(CorrectPool, MaxFixList)
    /\ master_nouns = new_glossary
    /\ prev_master = new_glossary
    /\ dict_cache \in CorrectCaches
    /\ combined_text = <<>>
    /\ npass = 0
    /\ raised = FALSE
    /\ existing_hanguls = {}
    /\ first_merged = <<>>
    /\ nmerge = 0
    /\ which = "none"
    /\ batch_ok = TRUE
    /\ PipeIdle
    /\ DetIdle
    /\ AiIdle

(* fix_name_misidentification on the list the last call returned (main.py *)
(* line 123 after text_processing.py line 266)                            *)
FixNames ==
    /\ pc \in {"start", "fixed"}
    /\ npass < MaxFixes
    /\ master_nouns' = fix_name_misidentification(master_nouns, DOMAIN dict_cache)
    /\ prev_master' = master_nouns
    /\ npass' = npass + 1
    /\ pc' = "fixed"
    /\ UNCHANGED <<dict_cache, combined_text, raised, mergeVars, pipeVars, detVars, aiVars>>

NextCorrect == FixNames

SpecCorrect == InitCorrect /\ [][NextCorrect]_vars

---------------------------------------------------------------------------
(* Properties of the category correction pass *)

(* a known surname followed by ga or sega *)
surname_house(hangul) ==
    \E surname \in single_char_surnames \cup compound_surnames :
        hangul = surname \o <<"ga">> \/ hangul = surname \o <<"se", "ga">>

has_skill_suffix(hangul) ==
    \E k \in 1..Len(hangul) :
        SubSeq(hangul, k, Len(hangul)) \in {<<"sin", "gong">>, <<"ma", "gong">>}

(* C21: every entry whose hangul is a known surname followed by ga or sega *)
(* leaves the pass with category 'locations and organizations', whatever   *)
(* its category was and whether or not its hangul is a key of the cache,   *)
(* and with nothing else changed                                           *)
C21_SurnameHouseIsOrganization ==
    pc = "fixed" =>
        \A i \in 1..Len(prev_master) :
            surname_house(Get(prev_master[i], "hangul", <<>>)) =>
                master_nouns[i] = Put(prev_master[i], "category",
                                      "locations and organizations")

C21_Witness ==
    /\ pc = "fixed"
    /\ npass = 1
    /\ Len(prev_master) = 2
    /\ prev_master[1] = [hangul |-> namgungga, category |-> "character names"]
    /\ namgungga \in DOMAIN dict_cache
    /\ Get(prev_master[2], "hangul", <<>>) = maga
    /\ Get(master_nouns[1], "category", "none") = "locations and organizations"
    /\ Get(master_nouns[2], "category", "none") = "locations and organizations"

C30_SameEntriesIdempotent ==
    pc = "fixed" =>
        /\ Len(master_nouns) = Len(prev_master)
        /\ \A i \in 1..Len(prev_master) :
              /\ ("hangul" \in DOMAIN master_nouns[i]) = ("hangul" \in DOMAIN prev_master[i])
              /\ Get(master_nouns[i], "hangul", <<>>) = Get(prev_master[i], "hangul", <<>>)
        /\ npass >= 2 => master_nouns = prev_master

C30_Witness ==
    /\ pc = "fixed"
    /\ npass = 2
    /\ Len(new_glossary) = 2
    /\ new_glossary[1] = [hangul |-> cheonma, category |-> "misc"]
    /\ Get(new_glossary[2], "hangul", <<>>) = namgungma
    /\ Get(master_nouns[1], "category", "none") = "character names"
    /\ Get(master_nouns[2], "category", "none") = "character names"

---------------------------------------------------------------------------
(* Properties of the duplicate removal of the batch pass *)

(* the comparison key of a record of more than three characters: its *)
(* trimmed hangul without a final particle                           *)
comparison_key(noun) ==
    LET hangul == trimmed(noun)
    IN  IF Len(hangul) > 3 /\ hangul[Len(hangul)] \in {"ga", "ui"}
        THEN SubSeq(hangul, 1, Len(hangul) - 1)
        ELSE hangul

is_long(noun) == Len(trimmed(noun)) > 3

(* the j-th smallest element of a set of positions *)
nth(S, j) == CHOOSE x \in S : Cardinality({y \in S : y < x}) = j - 1

(* out holds every key of record except the flag, with the same value *)
keeps_fields(out, record) ==
    /\ DOMAIN record \subseteq DOMAIN out
    /\ \A k \in DOMAIN record \ {"ambiguous"} : out[k] = record[k]

(* C22: in the list a batch pass returns, the records of more than three *)
(* characters have pairwise different comparison keys, and the record    *)
(* kept for a key is the first record of the input list with that key    *)
C22_FirstPerStrippedKey ==
    (pc = "batched" /\ ~raised) =>
        /\ \A i, j \in 1..Len(master_nouns) :
              (i < j /\ is_long(master_nouns[i]) /\ is_long(master_nouns[j]))
                  => comparison_key(master_nouns[i]) # comparison_key(master_nouns[j])
        /\ \A i \in 1..Len(prev_master) :
              (/\ is_long(prev_master[i])
               /\ \A h \in 1..(i - 1) :
                     is_long(prev_master[h])
                         => comparison_key(prev_master[h]) # comparison_key(prev_master[i]))
                  => \E j \in 1..Len(master_nouns) :
                        keeps_fields(master_nouns[j], prev_master[i])

(* two records with one comparison key and different hangul went through *)
(* a pass and only the first came back                                   *)
C22_Witness ==
    /\ pc = "batched"
    /\ Len(prev_master) = 2
    /\ is_long(prev_master[1])
    /\ is_long(prev_master[2])
    /\ prev_master[1]["hangul"] # prev_master[2]["hangul"]
    /\ trimmed(prev_master[1]) # trimmed(prev_master[2])
    /\ comparison_key(prev_master[1]) = comparison_key(prev_master[2])
    /\ Len(master_nouns) = 1
    /\ master_nouns[1]["hangul"] = prev_master[1]["hangul"]

(* C24: the list a batch pass returns is the input list without some of  *)
(* its records, in the input order; every record that came back has the *)
(* hangul and the other fields it came with, the flag apart, and the     *)
(* records of the input list are as they were before the pass            *)
C24_SubsequenceHangulKept ==
    (pc = "batched" /\ ~raised) =>
        \E S \in SUBSET (1..Len(prev_master)) :
            /\ Cardinality(S) = Len(master_nouns)
            /\ \A j \in 1..Len(master_nouns) :
                  /\ keeps_fields(master_nouns[j], prev_master[nth(S, j)])
                  /\ prev_master # <<>> => returned.inputs[j] = prev_master[nth(S, j)]

(* a pass dropped a record and returned a long record that ends with a *)
(* particle, with another flag than the one it came with               *)
C24_Witness ==
    /\ pc = "batched"
    /\ Len(prev_master) = 2
    /\ Len(master_nouns) = 1
    /\ prev_master[2] = [hangul |-> namgungsega, ambiguous |-> TRUE]
    /\ master_nouns[1]["hangul"] = namgungsega
    /\ master_nouns[1]["ambiguous"] = FALSE
    /\ returned.inputs = <<prev_master[2]>>

---------------------------------------------------------------------------
(* Properties of the local NER path *)

(* C25: after the frequency pass of the local path, a record whose hangul *)
(* was not in the master list before the merge has as frequency the       *)
(* number of non-overlapping literal occurrences of its hangul in the     *)
(* merged corpus text.                                                    *)
C25_NewCandidateFrequencyIsCount ==
    (pc = "local_ambiguity" /\ stages # <<>> /\ stages[Len(stages)] = "frequency") =>
        \A i \in 1..Len(master_nouns) :
            master_nouns[i]["hangul"] \notin existing_hanguls =>
                master_nouns[i]["frequency"] =
                    MaxNonOverlapping(master_nouns[i]["hangul"],
                                      normalize_whitespace(combined_text))

(* C26: after merge_localglossary_with_masternoun, a new candidate whose  *)
(* category the correction pass set is in the master list with that       *)
(* category.                                                              *)
C26_CorrectedCategoryKept ==
    (pc = "merged" /\ which = "local" /\ batch_ok /\ nmerge = 1) =>
        \A i \in 1..Len(new_glossary) :
            LET candidate == new_glossary[i]
                corrected == fix_entry(candidate, DOMAIN dict_cache)
            IN  (/\ candidate["hangul"] \notin Hanguls(prev_master)
                 /\ \A h \in 1..(i - 1) : new_glossary[h]["hangul"] # candidate["hangul"]
                 /\ corrected["category"] # Get(candidate, "category", ""))
                    => \E j \in 1..Len(master_nouns) :
                          /\ master_nouns[j]["hangul"] = candidate["hangul"]
                          /\ master_nouns[j]["category"] = corrected["category"]

---------------------------------------------------------------------------
(* Hosted extraction over the chunks of a corpus, attempt by attempt:     *)
(* SpecExtract                                                            *)

NumChunks == 2
MAX_RETRIES == 2

(* json.loads(response.text): pairs, an entry of one character, an entry *)
(* without hangul, an item that is no dict, a hangul with a blank        *)
ParsedAnswers ==
    {<<>>,
     <<[hangul |-> magong, hanja |-> ""]>>,
     <<[hangul |-> sinui, hanja |-> "H3"], [hangul |-> <<"ma">>, hanja |-> ""],
       [kind |-> "str"]>>,
     <<[hanja |-> "H1"], [hangul |-> <<" ", "cheon", "ma">>]>>}

(* how a call of generate_content can end: a response with JSON text, an  *)
(* empty response, an exception, an exception that says 'API key not     *)
(* valid'                                                                 *)
AttemptOutcomes == {"valid", "empty", "error", "invalid_key"}

(* extraction.py lines 131-139 *)
filter_api_nouns(parsed_json) ==
    LET kept == SelectSeq(parsed_json,
                          LAMBDA noun : /\ "kind" \notin DOMAIN noun
                                        /\ "hangul" \in DOMAIN noun
                                        /\ Len(noun["hangul"]) > 1)
    IN  [i \in 1..Len(kept) |->
            [hangul |-> Strip(kept[i]["hangul"]),
             hanja |-> strip_field(Get(kept[i], "hanja", ""))]]

is_fatal_never(outcome) == FALSE

(* extraction.py lines 145-147 *)
is_fatal(outcome) == outcome = "invalid_key"

InitExtract ==
    /\ pc = "extract_chunks"
    /\ master_nouns \in {m \in MasterLists : Len(m) <= 1}
    /\ prev_master = master_nouns
    /\ existing_hanguls = Hanguls(master_nouns)
    /\ disk = master_nouns
    /\ disk0 = master_nouns
    /\ cfg = DefaultConfig
    /\ result = "none"
    /\ stages = <<>>
    /\ excel_data = <<>>
    /\ original_glossary = <<>>
    /\ success = FALSE
    /\ dict_cache = <<>>
    /\ combined_text = <<>>
    /\ npass = 0
    /\ raised = FALSE
    /\ new_glossary = <<>>
    /\ first_merged = <<>>
    /\ nmerge = 0
    /\ which = "none"
    /\ batch_ok = TRUE
    /\ DetIdle
    /\ AiIdle

(* extraction.py lines 82-102: the chunk's nouns are appended, the list is *)
(* saved, the loop goes on with the next chunk                             *)
ChunkDone(found) ==
    /\ chunk' = chunk + 1
    /\ attempt' = 0
    /\ chunk_nouns' = found
    /\ LET new_nouns == first_of_each(found.nouns, existing_hanguls)
           grown == master_nouns
                    \o [i \in 1..Len(new_nouns) |->
                           [hangul |-> new_nouns[i].hangul, hanja |-> new_nouns[i].hanja,
                            english |-> "", category |-> "", frequency |-> 0]]
       IN  /\ master_nouns' = grown
           /\ existing_hanguls' = existing_hanguls \cup Hanguls(new_nouns)
           /\ disk' = grown
    /\ prev_master' = master_nouns

(* one pass of the loop of _call_ai_api_with_retries (lines 116-150) and, *)
(* when it was the last for the chunk, what the caller does with the      *)
(* result (lines 80-102)                                                  *)
GenerateContent ==
    /\ pc = "extract_chunks"
    /\ chunk < NumChunks
    /\ attempt < MAX_RETRIES
    /\ \E outcome \in AttemptOutcomes :
       \E parsed_json \in IF outcome = "valid" THEN ParsedAnswers ELSE {<<>>} :
          /\ requests' = Append(requests, [chunk |-> chunk + 1, attempt |-> attempt + 1,
                                           outcome |-> outcome])
          /\ IF outcome = "valid"
             THEN ChunkDone([valid |-> TRUE, nouns |-> filter_api_nouns(parsed_json)])
             ELSE IF is_fatal(outcome) \/ attempt + 1 = MAX_RETRIES
             THEN ChunkDone([valid |-> FALSE, nouns |-> <<>>])
             ELSE /\ attempt' = attempt + 1
                  /\ UNCHANGED <<chunk, chunk_nouns, master_nouns, prev_master,
                                 existing_hanguls, disk>>
    /\ UNCHANGED <<pc, success, dict_cache, combined_text, npass, raised, new_glossary,
                   first_merged, nmerge, which, batch_ok, cfg, disk0, result, stages,
                   excel_data, original_glossary, detVars>>

(* extraction.py lines 104-112 *)
ReturnExtraction ==
    /\ pc = "extract_chunks"
    /\ chunk = NumChunks
    /\ pc' = "extracted"
    /\ success' = (master_nouns # <<>>)
    /\ UNCHANGED <<master_nouns, prev_master, dict_cache, combined_text, npass, raised,
                   mergeVars, cfg, disk, disk0, result, stages, excel_data,
                   original_glossary, detVars, aiVars>>

NextExtract == GenerateContent \/ ReturnExtraction

(* the loops are sequential code and every call of generate_content ends, *)
(* with a response or with an exception                                   *)
SpecExtract == InitExtract /\ [][NextExtract]_vars /\ WF_vars(NextExtract)

---------------------------------------------------------------------------
(* Properties of the hosted extraction *)

requests_of(c) == {i \in 1..Len(requests) : requests[i].chunk = c}

(* every chunk gets at most MAX_RETRIES requests; a valid response or an *)
(* invalid-key error is the last request of its chunk, and the request   *)
(* after the last one of a chunk is for the next chunk                   *)
bounded_requests ==
    /\ \A c \in 1..NumChunks : Cardinality(requests_of(c)) <= MAX_RETRIES
    /\ \A i \in 1..(Len(requests) - 1) :
          IF \/ requests[i].outcome \in {"valid", "invalid_key"}
             \/ requests[i].attempt = MAX_RETRIES
          THEN requests[i + 1].chunk = requests[i].chunk + 1
          ELSE requests[i + 1].chunk = requests[i].chunk

(* when a chunk is finished the list is saved; a chunk whose call failed *)
(* left the list as it was, a chunk with a valid response added only     *)
(* hanguls of that response                                              *)
chunk_results ==
    (chunk >= 1 /\ attempt = 0) =>
        /\ disk = master_nouns
        /\ LET last == requests[Len(requests)]
           IN  /\ last.chunk = chunk
               /\ chunk_nouns.valid = (last.outcome = "valid")
               /\ ~chunk_nouns.valid =>
                     /\ master_nouns = prev_master
                     /\ last.outcome = "invalid_key" \/ last.attempt = MAX_RETRIES
               /\ SubSeq(master_nouns, 1, Len(prev_master)) = prev_master
               /\ Hanguls(master_nouns) \subseteq
                     Hanguls(prev_master) \cup Hanguls(chunk_nouns.nouns)

all_chunks_asked ==
    pc = "extracted" => \A c \in 1..NumChunks : requests_of(c) # {}

(* C27: the extraction of every chunk ends within MAX_RETRIES requests,  *)
(* at the first valid response, at an invalid-key error or after the     *)
(* last failed attempt; a failed chunk adds nothing, the list is saved   *)
(* after every chunk, every chunk is asked for and the extraction ends   *)
C27_ExtractionTerminates ==
    /\ [](bounded_requests /\ chunk_results /\ all_chunks_asked)
    /\ <>(pc = "extracted")

(* the first chunk failed in every attempt, the second gave a new noun in *)
(* its last attempt                                                       *)
C27_Witness ==
    /\ pc = "extracted"
    /\ Cardinality(requests_of(1)) = MAX_RETRIES
    /\ \A i \in requests_of(1) : requests[i].outcome \in {"empty", "error"}
    /\ requests[Len(requests)].outcome = "valid"
    /\ requests[Len(requests)].attempt = MAX_RETRIES
    /\ Len(master_nouns) > Len(prev_master)
    /\ disk = master_nouns

---------------------------------------------------------------------------
(* The enrichment stages, request by request: SpecEnrich                  *)
(* (categorization.py, translation.py, hanja_guessing.py)                 *)

BatchSize == 2
MaxEnrichList == 3
MaxStages == 1

EnrichStages == {"categorize", "translate", "guess"}

(* records as they reach the stages: fresh from extraction, complete,    *)
(* without the keys, without hanja, without category                     *)
EnrichPool ==
    {[hangul |-> cheonma, hanja |-> "", english |-> "", category |-> ""],
     [hangul |-> magong, hanja |-> "H1", english |-> "E1",
      category |-> "skills and techniques"],
     [hangul |-> sinui, hanja |-> "H3"],
     [hangul |-> namgungma, hanja |-> "", english |-> "E2",
      category |-> "character names"],
     [hangul |-> maga, hanja |-> "H4", english |-> "E3", category |-> ""]}

(* the field a stage writes: categorization.py 113, translation.py 128,  *)
(* hanja_guessing.py 137                                                 *)
stage_field(stage) ==
    CASE stage = "categorize" -> "category"
      [] stage = "translate" -> "english"
      [] OTHER -> "hanja"

needs_always(noun, stage) == TRUE

(* categorization.py 59, translation.py 73, hanja_guessing.py 79 *)
needs_enrichment(noun, stage) ==
    IF stage = "guess"
    THEN Get(noun, "hanja", "") = "" /\ Get(noun, "english", "") # ""
    ELSE Get(noun, stage_field(stage), "") = ""

(* needs_categorization_indices, needs_translation_indices,             *)
(* needs_hanja_indices                                                   *)
needs_indices(noun_list, stage) ==
    SelectSeq([i \in 1..Len(noun_list) |-> i],
              LAMBDA i : needs_enrichment(noun_list[i], stage))

(* batch_indices of the batch after b finished batches *)
batch_indices(needs, b) ==
    SubSeq(needs, b * BatchSize + 1,
           IF (b + 1) * BatchSize < Len(needs) THEN (b + 1) * BatchSize ELSE Len(needs))

(* the items of a parsed answer: a string, a dict without the field, a   *)
(* dict with the field empty, a dict with a value; the hangul of an item *)
(* is whatever the model wrote                                           *)
ItemAnswers(stage) ==
    {[kind |-> "str"],
     [hangul |-> magong],
     Put([hangul |-> magong], stage_field(stage), ""),
     Put([hangul |-> sinui], stage_field(stage),
         CASE stage = "categorize" -> "weapons"
           [] stage = "translate" -> "E9"
           [] OTHER -> "H2")}

(* how a request can end: an exception, an empty response, JSON that is  *)
(* no list of the batch's length, a list of the batch's length           *)
AnswersFor(stage, n) ==
    {[kind |-> k, items |-> <<>>] : k \in {"error", "empty", "wrong_length"}}
    \cup {[kind |-> "list", items |-> items] : items \in [1..n -> ItemAnswers(stage)]}

(* categorized_batch[j].get('category', 'misc'),                         *)
(* translated_batch[j].get('english', ''), updated_batch[j].get('hanja', '') *)
answer_value(item, stage) ==
    Get(item, stage_field(stage), IF stage = "categorize" THEN "misc" ELSE "")

(* categorization.py 113, translation.py 127-128, hanja_guessing.py 134-137 *)
write_item(noun, item, stage) ==
    IF stage = "guess" /\ answer_value(item, stage) = ""
    THEN noun
    ELSE Put(noun, stage_field(stage), answer_value(item, stage))

(* the loop over enumerate(batch_indices): an item that is no dict raises *)
(* AttributeError after the items before it were written                  *)
RECURSIVE write_batch(_, _, _, _, _)
write_batch(noun_list, indices, items, j, stage) ==
    IF j > Len(indices)
    THEN [nouns |-> noun_list, ok |-> TRUE]
    ELSE IF "kind" \in DOMAIN items[j]
    THEN [nouns |-> noun_list, ok |-> FALSE]
    ELSE write_batch([noun_list EXCEPT ![indices[j]] = write_item(@, items[j], stage)],
                     indices, items, j + 1, stage)

(* the else branch of the retry loop: categorization.py 125-129 assigns  *)
(* 'misc', translation.py 140-142 and hanja_guessing.py 149-151 leave    *)
(* the field                                                             *)
all_retries_failed(noun_list, indices, stage) ==
    IF stage = "categorize"
    THEN [i \in 1..Len(noun_list) |->
             IF i \in Range(indices) THEN Put(noun_list[i], "category", "misc")
             ELSE noun_list[i]]
    ELSE noun_list

InitEnrich ==
    /\ pc = "enrich"
    /\ master_nouns \in {m \in SeqsUpTo(EnrichPool, MaxEnrichList) : DistinctHanguls(m)}
    /\ prev_master = master_nouns
    /\ dict_cache = <<>>
    /\ combined_text = <<>>
    /\ npass = 0
    /\ raised = FALSE
    /\ MergeIdle
    /\ PipeIdle
    /\ DetIdle
    /\ AiIdle

enrichFrame == <<dict_cache, combined_text, raised, new_glossary, existing_hanguls,
                 first_merged, nmerge, batch_ok, pipeVars, detVars, chunk_nouns>>

(* a stage is called with the list: the indices are collected, and with  *)
(* none to fill the list is returned at once (categorization.py 53-65,   *)
(* translation.py 64-79, hanja_guessing.py 70-85)                        *)
CallStage ==
    /\ pc = "enrich"
    /\ npass < MaxStages
    /\ \E stage \in EnrichStages :
          /\ which' = stage
          /\ IF needs_indices(master_nouns, stage) = <<>>
             THEN pc' = "enrich" /\ npass' = npass + 1
             ELSE pc' = "enrich_batch" /\ npass' = npass
    /\ prev_master' = master_nouns
    /\ chunk' = 0
    /\ attempt' = 0
    /\ requests' = <<>>
    /\ UNCHANGED <<master_nouns, enrichFrame>>

(* the batch is finished; after the last batch the stage returns *)
BatchDone(nouns) ==
    /\ master_nouns' = nouns
    /\ chunk' = chunk + 1
    /\ attempt' = 0
    /\ IF (chunk + 1) * BatchSize >= Len(needs_indices(prev_master, which))
       THEN pc' = "enrich" /\ npass' = npass + 1
       ELSE pc' = "enrich_batch" /\ npass' = npass

(* one pass of the retry loop of the current batch (categorization.py    *)
(* 96-129, translation.py 110-142, hanja_guessing.py 117-151)            *)
RequestBatch ==
    /\ pc = "enrich_batch"
    /\ attempt < MAX_RETRIES
    /\ LET indices == batch_indices(needs_indices(prev_master, which), chunk)
           answered(answer, written) ==
               /\ requests' = Append(requests,
                                     [chunk |-> chunk + 1, attempt |-> attempt + 1,
                                      outcome |-> IF answer.kind # "list" THEN "no_list"
                                                  ELSE IF written.ok THEN "list"
                                                  ELSE "broken_list"])
               /\ IF answer.kind = "list" /\ written.ok
                  THEN BatchDone(written.nouns)
                  ELSE IF attempt + 1 = MAX_RETRIES
                  THEN BatchDone(all_retries_failed(written.nouns, indices, which))
                  ELSE /\ master_nouns' = written.nouns
                       /\ attempt' = attempt + 1
                       /\ UNCHANGED <<pc, npass, chunk>>
       IN  \E answer \in AnswersFor(which, Len(indices)) :
              answered(answer,
                       IF answer.kind = "list"
                       THEN write_batch(master_nouns, indices, answer.items, 1, which)
                       ELSE [nouns |-> master_nouns, ok |-> FALSE])
    /\ UNCHANGED <<which, prev_master, enrichFrame>>

NextEnrich == CallStage \/ RequestBatch

SpecEnrich == InitEnrich /\ [][NextEnrich]_vars

---------------------------------------------------------------------------
(* Properties of the enrichment stages *)

(* record new is record old apart from the field, which may be new *)
same_but(old, new, field) ==
    /\ DOMAIN new \subseteq DOMAIN old \cup {field}
    /\ \A k \in DOMAIN old \ {field} : k \in DOMAIN new /\ new[k] = old[k]

(* C28: during and after a call of categorize_nouns_with_ai,             *)
(* translate_nouns_with_ai or guess_missing_hanja_with_ai the list has   *)
(* the length it had at the call, every record is at its place with its *)
(* hangul and every field but the stage's own as it was, and a record    *)
(* whose category (english, hanja) was not empty at the call is as it    *)
(* was, whatever the answers and however many requests failed            *)
C28_PopulatedFieldsKept ==
    which \in EnrichStages =>
        /\ Len(master_nouns) = Len(prev_master)
        /\ \A i \in 1..Len(prev_master) :
              /\ same_but(prev_master[i], master_nouns[i], stage_field(which))
              /\ Get(prev_master[i], stage_field(which), "") # ""
                    => master_nouns[i] = prev_master[i]

(* a translation call has returned after a request that failed: the     *)
(* record without english got one, the record with english kept it      *)
C28_Witness ==
    /\ pc = "enrich"
    /\ which = "translate"
    /\ npass = 1
    /\ \E i \in 1..Len(requests) : requests[i].outcome \in {"no_list", "broken_list"}
    /\ Len(master_nouns) = 2
    /\ prev_master[1] = [hangul |-> magong, hanja |-> "H1", english |-> "E1",
                         category |-> "skills and techniques"]
    /\ master_nouns[1] = prev_master[1]
    /\ prev_master[2] = [hangul |-> sinui, hanja |-> "H3"]
    /\ master_nouns[2] = [hangul |-> sinui, hanja |-> "H3", english |-> "E9"]

---------------------------------------------------------------------------
(* Order of the persisted list after the ambiguity step *)

(* no record flagged ambiguous stands before one that is not *)
unambiguous_first(noun_list) ==
    \A i, j \in 1..Len(noun_list) :
        (i < j /\ Get(noun_list[i], "ambiguous", FALSE))
            => Get(noun_list[j], "ambiguous", FALSE)

(* nouns.json was written after the ambiguity step of the run *)
saved_after_ambiguity ==
    \E i, j \in 1..Len(stages) :
        i < j /\ stages[i] = "ambiguity" /\ stages[j] = "save"

(* C29: in a run of either extraction path, nouns.json as written after  *)
(* the ambiguity step, and as written by every later stage of the run,   *)
(* holds no ambiguous record before an unambiguous one                   *)
C29_PersistedUnambiguousFirst ==
    saved_after_ambiguity => unambiguous_first(disk)

(* hosted path: the ambiguity step left an ambiguous record before an    *)
(* unambiguous one, the sort has run and the sorted list was saved       *)
C29_Witness ==
    /\ pc = "categorize"
    /\ Len(stages) >= 3
    /\ stages[Len(stages) - 2] = "ambiguity"
    /\ stages[Len(stages) - 1] = "sort"
    /\ stages[Len(stages)] = "save"
    /\ ~unambiguous_first(prev_master)
    /\ disk = master_nouns
    /\ Len(disk) = Len(prev_master)
    /\ \E i, j \in 1..Len(disk) :
          /\ i < j
          /\ ~Get(disk[i], "ambiguous", FALSE)
          /\ Get(disk[j], "ambiguous", FALSE)
====
